---- MODULE Spec2Model ----
(***************************************************************************)
(* Automated-Funding: the background job tracker (api/jobs.py, the worker  *)
(* of utils/tools.py start_background_scrape), the batch and status routes *)
(* (api/routes/scrape.py) and the URL helpers they use.                    *)
(*                                                                         *)
(* A URL is a string; strings are modelled as sequences of tokens, each    *)
(* token standing for a run of characters that the code never splits       *)
(* (":", "/", "?", "#", a scheme name, a host name, a path segment).       *)
(* Wall-clock values (time.time()) are abstracted to "t"; None is "None".  *)
(***************************************************************************)
EXTENDS Integers, Sequences, FiniteSets, TLC

(***************************************************************************)
(* Bounds of the model.                                                    *)
(***************************************************************************)
\* number of scrapes started in the specification with running workers
MaxJobs == 1
\* number of scrapes started in the specification of the job store
MaxStoreJobs == 2
\* length of the fund_urls list of a batch payload
MaxBatchLen == 2

\* length of the raw URL list of a call of the dedup gate
MaxGateLen == 3
\* rows of the sheet at a call of the dedup gate
MaxSheetRows == 2

\* largest discovery_depth and max_pages arguments of a discovery crawl, and
\* the number of anchors of a fetched page
MaxDiscoveryDepth == 2
MaxDiscoveryPages == 3
MaxAnchors == 2

\* largest retries argument of fetch_page (its default is 4)
MaxRetries == 4
\* prioritized_crawl: pages other than the long tail in a candidate map, and
\* fetches that fail in one call
MaxRankHead == 2
MaxFetchFailures == 2

\* handler threads of the web server (each runs one route call at a time)
Threads == {"t1", "t2"}

None == "None"
\* current_url is a URL string or None; as a token sequence None is <<>>
\* (no URL of the program is the empty string: normalize_url always
\* produces "<scheme>://...")
NoUrl == <<>>

(***************************************************************************)
(* Strings as token sequences.                                             *)
(***************************************************************************)
RECURSIVE IndexFrom(_, _, _)
\* str.find: index of the first token of s at or after i that is in set d,
\* Len(s) + 1 when there is none
IndexFrom(s, d, i) ==
  IF i > Len(s) THEN Len(s) + 1
  ELSE IF s[i] \in d THEN i
  ELSE IndexFrom(s, d, i + 1)

\* s[i:j] of Python with 1-based inclusive bounds
Slice(s, i, j) == IF j < i THEN <<>> ELSE SubSeq(s, i, j)

RECURSIVE rstrip(_, _)
\* str.rstrip(c)
rstrip(s, c) ==
  IF s # <<>> /\ s[Len(s)] = c THEN rstrip(SubSeq(s, 1, Len(s) - 1), c) ELSE s

\* str.lower on one token
LowerTok(t) ==
  CASE t = "HTTPS" -> "https"
    [] t = "HTTP" -> "http"
    [] t = "A.ORG" -> "a.org"
    [] t = "WWW." -> "www."
    [] t = "Q" -> "q"
    [] OTHER -> t

lower(s) == [i \in 1..Len(s) |-> LowerTok(s[i])]

\* tokens made only of characters a scheme may contain and starting with a
\* letter (urllib.parse.scheme_chars)
NotSchemeTok == {":", "/", "?", "#", ";", "[", "123", "456", "1234"}

(***************************************************************************)
(* urllib.parse.urlparse: scheme, netloc, path, query, fragment.           *)
(***************************************************************************)
\* urlsplit, the scheme: the text before the first ":" when it is made of
\* scheme characters; <<scheme, rest>>
SplitScheme(url) ==
  LET colon == IndexFrom(url, {":"}, 1)
  IN IF /\ colon >= 2
        /\ colon <= Len(url)
        /\ \A k \in 1..(colon - 1) : url[k] \notin NotSchemeTok
     THEN <<lower(Slice(url, 1, colon - 1)), Slice(url, colon + 1, Len(url))>>
     ELSE <<(<<>>), url>>

\* urlsplit, the netloc: after a leading "//", up to the next "/", "?" or
\* "#"; <<netloc, rest>>
SplitNetloc(rest) ==
  IF Len(rest) >= 2 /\ rest[1] = "/" /\ rest[2] = "/"
  THEN LET nend == IndexFrom(rest, {"/", "?", "#"}, 3)
       IN <<Slice(rest, 3, nend - 1), Slice(rest, nend, Len(rest))>>
  ELSE <<(<<>>), rest>>

\* str.split(c, 1) as <<before, after>>
SplitAt(s, c) ==
  LET k == IndexFrom(s, {c}, 1)
  IN <<Slice(s, 1, k - 1), Slice(s, k + 1, Len(s))>>

RECURSIVE LastIndex(_, _, _)
\* str.rfind: index of the last token c of s at or before i, 0 when none
LastIndex(s, c, i) ==
  IF i = 0 THEN 0
  ELSE IF s[i] = c THEN i
  ELSE LastIndex(s, c, i - 1)

\* schemes whose path may carry parameters (urllib.parse.uses_params)
UsesParams == {<<>>, <<"http">>, <<"https">>}

\* _splitparams: the first ";" of the last path segment splits the path
\* from the parameters; <<path, params>>
SplitParamsAt(path, semi) ==
  IF semi > Len(path) THEN <<path, (<<>>)>>
  ELSE <<Slice(path, 1, semi - 1), Slice(path, semi + 1, Len(path))>>

SemiFrom(path, slash) ==
  IndexFrom(path, {";"}, IF slash = 0 THEN 1 ELSE slash)

SplitParams(scheme, path) ==
  IF scheme \in UsesParams
  THEN SplitParamsAt(path, SemiFrom(path, LastIndex(path, "/", Len(path))))
  ELSE <<path, (<<>>)>>

urlparse(url) ==
  LET bySchema == SplitScheme(url)
      byNetloc == SplitNetloc(bySchema[2])
      byFragment == SplitAt(byNetloc[2], "#")
      byQuery == SplitAt(byFragment[1], "?")
      byParams == SplitParams(bySchema[1], byQuery[1])
  IN [scheme |-> bySchema[1], netloc |-> byNetloc[1], path |-> byParams[1],
      params |-> byParams[2], query |-> byQuery[2],
      fragment |-> byFragment[2]]

\* urlsplit raises ValueError for a netloc with an unmatched bracket
UrlparseRaises(url) ==
  \E i \in DOMAIN SplitNetloc(SplitScheme(url)[2])[1] :
    SplitNetloc(SplitScheme(url)[2])[1][i] = "["

\* utils/tools.py normalize_url
normalize_url(url) ==
  LET parsed == urlparse(url)
      scheme == IF parsed.scheme # <<>> THEN parsed.scheme ELSE <<"https">>
      netloc == parsed.netloc
      path == rstrip(parsed.path, "/")
      qs == IF parsed.query # <<>> THEN <<"?">> \o parsed.query ELSE <<>>
  IN scheme \o <<":", "/", "/">> \o netloc \o path \o qs

\* the host of the Charity Commission register
RegisterHost == "register-of-charities.charitycommission.gov.uk"

\* str.replace("www.", "")
DropWww(s) == SelectSeq(s, LAMBDA t : t # "www.")

\* utils/tools.py canon_funder_url: "" for the empty string; the
\* normalized URL without trailing "/" for a host of the register;
\* "https://<domain>" otherwise; url.strip().lower() when urlparse raises
\* (no URL of the model has outer white space)
canon_funder_url(url) ==
  IF url = <<>> THEN <<>>
  ELSE IF UrlparseRaises(url) THEN lower(url)
  ELSE IF /\ DropWww(lower(urlparse(normalize_url(url)).netloc)) # <<>>
          /\ DropWww(lower(urlparse(normalize_url(url)).netloc))[1] = RegisterHost
       THEN rstrip(normalize_url(url), "/")
       ELSE <<"https", ":", "/", "/">>
              \o DropWww(lower(urlparse(normalize_url(url)).netloc))

(***************************************************************************)
(* Raw URLs a payload may carry: str(HttpUrl) values, so each has an       *)
(* http(s) scheme and a host.                                              *)
(***************************************************************************)
UrlA == <<"https", ":", "/", "/", "a.org", "/", "x">>
UrlASlash == <<"https", ":", "/", "/", "a.org", "/", "x", "/">>
UrlB == <<"https", ":", "/", "/", "b.org", "/">>
RawUrls == {UrlA, UrlASlash, UrlB}

\* URLs as a caller may pass them to the two canonicalizers: with and
\* without scheme, general hosts with and without "www.", the register
\* host, a host that urlparse rejects, paths with and without trailing
\* "/" and parameters, empty and non-empty queries, fragments, and ""
UrlSchemes == {<<>>, <<"https", ":">>, <<"HTTP", ":">>}
UrlHosts ==
  {<<"/", "/", "a.org">>, <<"/", "/", "WWW.", "A.ORG">>,
   <<"/", "/", RegisterHost>>, <<"a.org">>, <<"/", "/", "[", "a.org">>}
UrlPaths ==
  {<<>>, <<"/">>, <<"/", "x">>, <<"/", "x", "/">>, <<"/", "x", ";", "p", "/">>}
UrlQueries == {<<>>, <<"?">>, <<"?", "Q">>, <<"?", "/">>}
UrlFragments == {<<>>, <<"#", "f">>}
CanonInputs ==
  {<<>>} \cup {s \o h \o p \o q \o f : s \in UrlSchemes, h \in UrlHosts,
                p \in UrlPaths, q \in UrlQueries, f \in UrlFragments}

RECURSIVE SeqsUpTo(_, _)
\* all sequences over S of length <= n
SeqsUpTo(S, n) ==
  IF n = 0 THEN {<<>>}
  ELSE LET shorter == SeqsUpTo(S, n - 1)
       IN shorter \cup {Append(q, x) : q \in shorter, x \in S}

Range(s) == {s[i] : i \in 1..Len(s)}


(***************************************************************************)
(* The dedup gate, api/routes/scrape.py _prepare_urls_for_scrape.          *)
(***************************************************************************)
PrepareStart ==
  [to_scrape |-> <<>>, already_processed |-> <<>>,
   duplicates_in_payload |-> <<>>, normalized_map |-> {},
   seen_normalized |-> {}]

\* a loop body that drops an already processed URL without reporting it
PrepareStepUnreported(acc, raw, processed, allow_rescrape_normalized) ==
  LET normalized == normalize_url(raw)
      mapped == [acc EXCEPT !.normalized_map = @ \cup {<<raw, normalized>>}]
  IN IF normalized \in acc.seen_normalized
     THEN [mapped EXCEPT !.duplicates_in_payload = Append(@, raw)]
     ELSE IF /\ normalized \in processed
             /\ normalized \notin allow_rescrape_normalized
     THEN [mapped EXCEPT !.seen_normalized = @ \cup {normalized}]
     ELSE [mapped EXCEPT !.seen_normalized = @ \cup {normalized},
                         !.to_scrape = Append(@, normalized)]

\* a loop body without the seen-set: every occurrence counts as the first
PrepareStepUnseen(acc, raw, processed, allow_rescrape_normalized) ==
  LET normalized == normalize_url(raw)
      mapped == [acc EXCEPT !.normalized_map = @ \cup {<<raw, normalized>>}]
  IN IF /\ normalized \in processed
        /\ normalized \notin allow_rescrape_normalized
     THEN [mapped EXCEPT !.seen_normalized = @ \cup {normalized},
                         !.already_processed = Append(@, raw)]
     ELSE [mapped EXCEPT !.seen_normalized = @ \cup {normalized},
                         !.to_scrape = Append(@, normalized)]

\* a loop body that ignores the allow-rescrape set
PrepareStepNoRescrape(acc, raw, processed, allow_rescrape_normalized) ==
  LET normalized == normalize_url(raw)
      mapped == [acc EXCEPT !.normalized_map = @ \cup {<<raw, normalized>>}]
  IN IF normalized \in acc.seen_normalized
     THEN [mapped EXCEPT !.duplicates_in_payload = Append(@, raw)]
     ELSE IF normalized \in processed
     THEN [mapped EXCEPT !.seen_normalized = @ \cup {normalized},
                         !.already_processed = Append(@, raw)]
     ELSE [mapped EXCEPT !.seen_normalized = @ \cup {normalized},
                         !.to_scrape = Append(@, normalized)]

\* lines 42-51: the body of the loop for one raw URL
PrepareStep(acc, raw, processed, allow_rescrape_normalized) ==
  LET normalized == normalize_url(raw)
      mapped == [acc EXCEPT !.normalized_map = @ \cup {<<raw, normalized>>}]
  IN IF normalized \in acc.seen_normalized
     THEN [mapped EXCEPT !.duplicates_in_payload = Append(@, raw)]
     ELSE IF /\ normalized \in processed
             /\ normalized \notin allow_rescrape_normalized
     THEN [mapped EXCEPT !.seen_normalized = @ \cup {normalized},
                         !.already_processed = Append(@, raw)]
     ELSE [mapped EXCEPT !.seen_normalized = @ \cup {normalized},
                         !.to_scrape = Append(@, normalized)]

RECURSIVE PrepareLoop(_, _, _, _)
\* line 41: for raw in raw_urls
PrepareLoop(raw_urls, processed, allow_rescrape_normalized, acc) ==
  IF raw_urls = <<>> THEN acc
  ELSE PrepareLoop(Tail(raw_urls), processed, allow_rescrape_normalized,
                   PrepareStep(acc, Head(raw_urls), processed,
                               allow_rescrape_normalized))

\* lines 53-58: the dict that is returned
PrepareResult(acc) ==
  [to_scrape |-> acc.to_scrape,
   already_processed |-> acc.already_processed,
   duplicates_in_payload |-> acc.duplicates_in_payload,
   normalized_map |-> acc.normalized_map]

\* _prepare_urls_for_scrape(raw_urls, allow_rescrape=...) given the set that
\* get_already_processed_urls(force_refresh=True) returned
prepare_urls_for_scrape(raw_urls, processed, allow_rescrape) ==
  PrepareResult(PrepareLoop(raw_urls, processed,
                            {normalize_url(u) : u \in allow_rescrape},
                            PrepareStart))

\* utils/tools.py get_already_processed_urls over the rows of the sheet;
\* a failed load of the sheet yields an empty frame and so the empty set
get_already_processed_urls(rows, loaded) ==
  IF loaded THEN {normalize_url(rows[i]) : i \in 1..Len(rows)} ELSE {}

\* a batch payload: fund_urls and the optional rescrape_urls
NoPayload == [fund_urls |-> <<>>, rescrape_urls |-> <<>>]

Payloads ==
  [fund_urls : SeqsUpTo(RawUrls, MaxBatchLen),
   rescrape_urls : {<<>>} \cup {<<u>> : u \in RawUrls}]

(***************************************************************************)
(* State.                                                                  *)
(***************************************************************************)
VARIABLES
  sheet,      \* rows of the record store (the fund_url column), append-only
  jobs,       \* JobStore._jobs: job id -> Job (id, urls)
  lock,       \* JobStore._lock: "free" or the thread that holds it
  progress,   \* job id -> the ScrapeProgress of the scrape started under it
  worker,     \* job id -> the worker thread of that scrape (urls, pc, locals)
  thread,     \* handler thread -> its position and locals
  returned,   \* job ids sent to a client in a 202 response (history)
  call,       \* one call of a pure helper: its arguments and its results
  crawl       \* one run of discover_links: the site and the locals of the run

vars == <<sheet, jobs, lock, progress, worker, thread, returned, call, crawl>>

\* no call of a helper and no crawl is being looked at
NoCall == [fn |-> "none"]
NoCrawl == [pc |-> "none"]

\* utils/tools.py ScrapeProgress(started_at=time.time())
NewProgress ==
  [done |-> FALSE, progress_percent |-> 0, results |-> <<>>, errors |-> <<>>,
   started_at |-> "t", finished_at |-> None, current_url |-> NoUrl,
   current_started_at |-> None, url_timings |-> <<>>]

\* the local `res` of the worker before its first assignment
NoRes == [fund_url |-> NoUrl, error |-> None]

\* the dict Job.snapshot builds, before any field is read
NoSnapshot ==
  [done |-> FALSE, progress_percent |-> 0, current_url |-> NoUrl,
   current_elapsed_seconds |-> "zero", total_elapsed_seconds |-> "zero",
   finished_at |-> None, total_urls |-> 0, completed_urls |-> 0]

\* a handler thread between two requests; in a request: the route it
\* serves, the payload, the processed set the dedup gate read, to_scrape
\* (scrape_batch), job_id, the job found or not, the snapshot dict
\* (job_status), the status code of the response
IdleThread ==
  [pc |-> "idle", route |-> "none", payload |-> NoPayload, processed |-> {},
   to_scrape |-> <<>>, job_id |-> 0, found |-> FALSE, snap |-> NoSnapshot,
   code |-> "none"]

\* ids already handed out by uuid4 (one per started scrape)
Started == DOMAIN progress

\* the ids uuid4 can hand out within the bounds
JobIds == 1..(IF MaxJobs > MaxStoreJobs THEN MaxJobs ELSE MaxStoreJobs)

\* the sheet outlives the process: at start it is empty or holds the rows
\* of earlier runs (fund_url as it was written then)
InitialSheets == {<<>>, <<UrlASlash>>}

Init ==
  /\ sheet \in InitialSheets
  /\ jobs = <<>>
  /\ lock = "free"
  /\ progress = <<>>
  /\ worker = <<>>
  /\ thread = [t \in Threads |-> IdleThread]
  /\ returned = {}
  /\ call = NoCall
  /\ crawl = NoCrawl


(***************************************************************************)
(* The worker thread of start_background_scrape (utils/tools.py 674-706).  *)
(* Each write of a ScrapeProgress field is one step.                       *)
(***************************************************************************)
\* a loop that walks the list from its end
WorkerUrlReversed(j) ==
  worker[j].urls[Len(worker[j].urls) + 1 - worker[j].idx]

\* the url of the current iteration of `for idx, url in enumerate(urls, 1)`
WorkerUrl(j) == worker[j].urls[worker[j].idx]

\* a total that counts one URL too many
TotalOffByOne(urls) == Len(urls) + 1

\* total = max(len(urls), 1)
Total(urls) == IF Len(urls) > 1 THEN Len(urls) ELSE 1

\* the share of the URLs still to do instead of the share done
PercentOfRemaining(idx, total) == ((total - idx) * 100) \div total

\* int(idx / total * 100); the float expression equals the exact quotient
\* for every total below 50 (it first differs at idx = 29, total = 50)
Percent(idx, total) == (idx * 100) \div total

WorkerAt(j, pc) == j \in DOMAIN worker /\ worker[j].pc = pc

\* line 677: progress.current_url = url
WorkerSetCurrentUrl(j) ==
  /\ WorkerAt(j, "current_url")
  /\ progress' = [progress EXCEPT ![j].current_url = WorkerUrl(j)]
  /\ worker' = [worker EXCEPT ![j].pc = "current_started_at"]
  /\ UNCHANGED <<call, crawl, sheet, jobs, lock, thread, returned>>

\* line 678: progress.current_started_at = time.time()
WorkerSetCurrentStartedAt(j) ==
  /\ WorkerAt(j, "current_started_at")
  /\ progress' = [progress EXCEPT ![j].current_started_at = "t"]
  /\ worker' = [worker EXCEPT ![j].pc = "call"]
  /\ UNCHANGED <<call, crawl, sheet, jobs, lock, thread, returned>>

\* process_single_fund (617-658) returning a record: error is "" after a
\* classification, a message otherwise; the finally clause appends the
\* record to the sheet unless the append fails (the failure is only logged)
ProcessReturns(j, error, persisted) ==
  /\ worker' = [worker EXCEPT
       ![j].res = [fund_url |-> WorkerUrl(j), error |-> error],
       ![j].pc = "results"]
  /\ sheet' = IF persisted THEN Append(sheet, WorkerUrl(j)) ELSE sheet
  /\ UNCHANGED <<call, crawl, jobs, lock, progress, thread, returned>>

\* process_single_fund raising out of the call (before its try block)
ProcessRaises(j) ==
  /\ worker' = [worker EXCEPT ![j].pc = "except"]
  /\ UNCHANGED <<call, crawl, sheet, jobs, lock, progress, thread, returned>>

\* line 679: res = process_single_fund(url)
WorkerCall(j) ==
  /\ WorkerAt(j, "call")
  /\ \/ \E error \in {"", "E"}, persisted \in BOOLEAN :
          ProcessReturns(j, error, persisted)
     \/ ProcessRaises(j)

\* line 680: progress.results.append(res); line 681 tests res.get("error")
WorkerAppendResult(j) ==
  /\ WorkerAt(j, "results")
  /\ progress' = [progress EXCEPT ![j].results = Append(@, worker[j].res)]
  /\ worker' = [worker EXCEPT
       ![j].pc = IF worker[j].res.error # "" THEN "errors" ELSE "timing"]
  /\ UNCHANGED <<call, crawl, sheet, jobs, lock, thread, returned>>

\* line 682: progress.errors.append((url, res["error"]))
WorkerAppendError(j) ==
  /\ WorkerAt(j, "errors")
  /\ progress' = [progress EXCEPT
       ![j].errors = Append(@, <<WorkerUrl(j), worker[j].res.error>>)]
  /\ worker' = [worker EXCEPT ![j].pc = "timing"]
  /\ UNCHANGED <<call, crawl, sheet, jobs, lock, thread, returned>>

\* a worker without the except clause: the exception ends the thread
WorkerExceptFatal(j) ==
  /\ j \in DOMAIN worker
  /\ worker[j].pc = "except"
  /\ worker' = [worker EXCEPT ![j].pc = "exit"]
  /\ UNCHANGED <<call, crawl, sheet, jobs, lock, progress, thread, returned>>

\* an except clause that swallows the exception without recording it
WorkerExceptUnrecorded(j) ==
  /\ j \in DOMAIN worker
  /\ worker[j].pc = "except"
  /\ worker' = [worker EXCEPT
       ![j].res = [fund_url |-> worker[j].urls[worker[j].idx], error |-> "X"],
       ![j].pc = "timing"]
  /\ UNCHANGED <<call, crawl, sheet, jobs, lock, progress, thread, returned>>

\* lines 683-685: except Exception: errors.append((url, str(exc))) and
\* res = {"fund_url": url, "error": str(exc)}
WorkerExcept(j) ==
  /\ WorkerAt(j, "except")
  /\ progress' = [progress EXCEPT
       ![j].errors = Append(@, <<WorkerUrl(j), "X">>)]
  /\ worker' = [worker EXCEPT
       ![j].res = [fund_url |-> WorkerUrl(j), error |-> "X"],
       ![j].pc = "timing"]
  /\ UNCHANGED <<call, crawl, sheet, jobs, lock, thread, returned>>

\* lines 687-699 (finally): progress.url_timings.append({...}); the three
\* time fields of the record are wall-clock values
WorkerAppendTiming(j) ==
  /\ WorkerAt(j, "timing")
  /\ progress' = [progress EXCEPT
       ![j].url_timings = Append(@, [url |-> WorkerUrl(j),
                                      started_at |-> "t",
                                      finished_at |-> "t",
                                      error |-> worker[j].res.error])]
  /\ worker' = [worker EXCEPT ![j].pc = "clear_url"]
  /\ UNCHANGED <<call, crawl, sheet, jobs, lock, thread, returned>>

\* line 700: progress.current_url = None
WorkerClearCurrentUrl(j) ==
  /\ WorkerAt(j, "clear_url")
  /\ progress' = [progress EXCEPT ![j].current_url = NoUrl]
  /\ worker' = [worker EXCEPT ![j].pc = "clear_started_at"]
  /\ UNCHANGED <<call, crawl, sheet, jobs, lock, thread, returned>>

\* line 701: progress.current_started_at = None
WorkerClearCurrentStartedAt(j) ==
  /\ WorkerAt(j, "clear_started_at")
  /\ progress' = [progress EXCEPT ![j].current_started_at = None]
  /\ worker' = [worker EXCEPT ![j].pc = "percent"]
  /\ UNCHANGED <<call, crawl, sheet, jobs, lock, thread, returned>>

\* line 703: progress.progress_percent = int(idx / total * 100), then the
\* for loop advances or ends
WorkerSetPercent(j) ==
  /\ WorkerAt(j, "percent")
  /\ progress' = [progress EXCEPT
       ![j].progress_percent = Percent(worker[j].idx, Total(worker[j].urls))]
  /\ worker' = [worker EXCEPT
       ![j].idx = IF @ < Len(worker[j].urls) THEN @ + 1 ELSE @,
       ![j].pc = IF worker[j].idx < Len(worker[j].urls)
                 THEN "current_url" ELSE "done"]
  /\ UNCHANGED <<call, crawl, sheet, jobs, lock, thread, returned>>

\* line 705: progress.done = True
WorkerSetDone(j) ==
  /\ WorkerAt(j, "done")
  /\ progress' = [progress EXCEPT ![j].done = TRUE]
  /\ worker' = [worker EXCEPT ![j].pc = "finished_at"]
  /\ UNCHANGED <<call, crawl, sheet, jobs, lock, thread, returned>>

\* line 706: progress.finished_at = time.time(); the thread ends
WorkerSetFinishedAt(j) ==
  /\ WorkerAt(j, "finished_at")
  /\ progress' = [progress EXCEPT ![j].finished_at = "t"]
  /\ worker' = [worker EXCEPT ![j].pc = "exit"]
  /\ UNCHANGED <<call, crawl, sheet, jobs, lock, thread, returned>>

\* one step of the worker of scrape j
Worker(j) ==
  \/ WorkerSetCurrentUrl(j)
  \/ WorkerSetCurrentStartedAt(j)
  \/ WorkerCall(j)
  \/ WorkerAppendResult(j)
  \/ WorkerAppendError(j)
  \/ WorkerExcept(j)
  \/ WorkerAppendTiming(j)
  \/ WorkerClearCurrentUrl(j)
  \/ WorkerClearCurrentStartedAt(j)
  \/ WorkerSetPercent(j)
  \/ WorkerSetDone(j)
  \/ WorkerSetFinishedAt(j)


(***************************************************************************)
(* POST /scrape/batch: scrape_batch (api/routes/scrape.py 95-122) and      *)
(* JobStore.create (api/jobs.py 50-56).                                    *)
(***************************************************************************)
ThreadAt(t, pc) == thread[t].pc = pc

\* scrapes started or about to be started
Claimed == Cardinality(Started) + Cardinality({t \in Threads : ThreadAt(t, "create")})

\* lines 103-106: raw_urls = fund_urls, extended by rescrape_urls
RawUrlsOf(payload) == payload.fund_urls \o payload.rescrape_urls

\* scrape_batch without the test of line 108: an empty to_scrape list
\* reaches job_store.create
BatchPrepareUnchecked(t, cap, payloads) ==
  /\ ThreadAt(t, "idle")
  /\ Claimed < cap
  /\ \E payload \in payloads, loaded \in BOOLEAN :
       LET processed == get_already_processed_urls(sheet, loaded)
           prepared == prepare_urls_for_scrape(RawUrlsOf(payload), processed,
                                               Range(payload.rescrape_urls))
           request == [IdleThread EXCEPT !.payload = payload,
                                         !.route = "scrape_batch"]
       IN IF payload.fund_urls = <<>> /\ payload.rescrape_urls = <<>>
          THEN thread' = [thread EXCEPT ![t] =
                 [request EXCEPT !.pc = "respond", !.code = "400"]]
          ELSE thread' = [thread EXCEPT ![t] =
                 [request EXCEPT !.pc = "create", !.processed = processed,
                                 !.to_scrape = prepared.to_scrape]]
  /\ UNCHANGED <<call, crawl, sheet, jobs, lock, progress, worker, returned>>

\* the request body as the handler receives it: api/schemas.py 28-29
\* declares fund_urls only, while scrape.py 100-121 reads
\* payload.rescrape_urls; a schema that declares the field keeps it, the
\* schema of schemas.py drops it
Validated(payload, declares_rescrape) ==
  IF declares_rescrape THEN payload
  ELSE [payload EXCEPT !.rescrape_urls = <<>>]

\* lines 100-112: the empty-payload test, the dedup gate over the raw URLs
\* (one read of the sheet), the empty-result test; `cap` bounds the number
\* of accepted batches, `payloads` the request bodies. Without a declared
\* rescrape_urls field the first read of payload.rescrape_urls (line 100
\* for an empty fund_urls, line 104 otherwise) raises AttributeError, which
\* leaves the route (a 500 response)
BatchPrepare(t, cap, payloads) ==
  /\ ThreadAt(t, "idle")
  /\ \E body \in payloads, loaded \in BOOLEAN, declares_rescrape \in BOOLEAN :
       LET payload == Validated(body, declares_rescrape)
           processed == get_already_processed_urls(sheet, loaded)
           prepared == prepare_urls_for_scrape(RawUrlsOf(payload), processed,
                                               Range(payload.rescrape_urls))
           request == [IdleThread EXCEPT !.payload = payload,
                                         !.route = "scrape_batch"]
       IN IF ~declares_rescrape
          THEN thread' = [thread EXCEPT ![t] =
                 [request EXCEPT !.pc = "respond", !.code = "500"]]
          ELSE IF payload.fund_urls = <<>> /\ payload.rescrape_urls = <<>>
          THEN thread' = [thread EXCEPT ![t] =
                 [request EXCEPT !.pc = "respond", !.code = "400"]]
          ELSE IF prepared.to_scrape = <<>>
          THEN thread' = [thread EXCEPT ![t] =
                 [request EXCEPT !.pc = "respond", !.code = "400",
                                 !.processed = processed]]
          ELSE /\ Claimed < cap
               /\ thread' = [thread EXCEPT ![t] =
                    [request EXCEPT !.pc = "create", !.processed = processed,
                                    !.to_scrape = prepared.to_scrape]]
  /\ UNCHANGED <<call, crawl, sheet, jobs, lock, progress, worker, returned>>

\* uuid.uuid4().hex: an id no earlier call produced
uuid4 == Cardinality(Started) + 1

\* utils/tools.py 670-709: the ScrapeProgress and the worker thread that
\* start_background_scrape(urls) creates
StartedWorker(urls) ==
  [urls |-> urls, idx |-> 1, res |-> NoRes,
   pc |-> IF urls = <<>> THEN "done" ELSE "current_url"]

\* api/jobs.py 51-53: job_id = uuid4, progress = start_background_scrape
JobStoreCreateStart(t) ==
  /\ ThreadAt(t, "create")
  /\ LET job_id == uuid4
     IN /\ progress' = (job_id :> NewProgress) @@ progress
        /\ worker' = (job_id :> StartedWorker(thread[t].to_scrape)) @@ worker
        /\ thread' = [thread EXCEPT ![t].pc = "create_lock",
                                    ![t].job_id = job_id]
  /\ UNCHANGED <<call, crawl, sheet, jobs, lock, returned>>

\* api/jobs.py 54: with self._lock (acquire)
JobStoreCreateLock(t) ==
  /\ ThreadAt(t, "create_lock")
  /\ lock = "free"
  /\ lock' = t
  /\ thread' = [thread EXCEPT ![t].pc = "create_insert"]
  /\ UNCHANGED <<call, crawl, sheet, jobs, progress, worker, returned>>

\* an assignment that replaces the dict by one holding only the new entry
DictReplace(d, k, v) == (k :> v)

\* the dict assignment d[k] = v
DictSet(d, k, v) == (k :> v) @@ d

\* api/jobs.py 55: self._jobs[job_id] = job
JobStoreCreateInsert(t) ==
  /\ ThreadAt(t, "create_insert")
  /\ jobs' = DictSet(jobs, thread[t].job_id,
                     [id |-> thread[t].job_id, urls |-> thread[t].to_scrape])
  /\ thread' = [thread EXCEPT ![t].pc = "create_unlock"]
  /\ UNCHANGED <<call, crawl, sheet, lock, progress, worker, returned>>

\* api/jobs.py 54-56: the with block ends (release), return job; then
\* scrape.py 115-122 builds the 202 response
JobStoreCreateUnlock(t) ==
  /\ ThreadAt(t, "create_unlock")
  /\ lock' = "free"
  /\ thread' = [thread EXCEPT ![t].pc = "respond", ![t].code = "202"]
  /\ UNCHANGED <<call, crawl, sheet, jobs, progress, worker, returned>>

\* the response leaves the server; the handler thread is free again
Respond(t) ==
  /\ ThreadAt(t, "respond")
  /\ returned' = IF thread[t].code = "202"
                 THEN returned \cup {thread[t].job_id} ELSE returned
  /\ thread' = [thread EXCEPT ![t] = IdleThread]
  /\ UNCHANGED <<call, crawl, sheet, jobs, lock, progress, worker>>

scrape_batch(t, cap, payloads) ==
  \/ BatchPrepare(t, cap, payloads)
  \/ JobStoreCreateStart(t)
  \/ JobStoreCreateLock(t)
  \/ JobStoreCreateInsert(t)
  \/ JobStoreCreateUnlock(t)


(***************************************************************************)
(* GET /scrape/jobs/{job_id}: job_status (api/routes/scrape.py 125-148),   *)
(* JobStore.get (api/jobs.py 58-60) and Job.snapshot (api/jobs.py 19-42).  *)
(* Each read of a ScrapeProgress field the worker writes is one step;      *)
(* started_at and Job.urls are never written after creation and are read   *)
(* together with the neighbouring field. results, errors and url_timings   *)
(* enter the dict as references to the live lists.                         *)
(***************************************************************************)
\* ids a client may ask for: every id uuid4 can produce, and one it never does
QueryIds == JobIds \cup {Cardinality(JobIds) + 1}

\* api/jobs.py 59: with self._lock (acquire), for the job_id of the request
JobStoreGetLock(t) ==
  /\ ThreadAt(t, "idle")
  /\ lock = "free"
  /\ lock' = t
  /\ \E job_id \in QueryIds :
       thread' = [thread EXCEPT ![t] =
                    [IdleThread EXCEPT !.pc = "get_lookup",
                                       !.route = "job_status",
                                       !.job_id = job_id]]
  /\ UNCHANGED <<call, crawl, sheet, jobs, progress, worker, returned>>

\* a lookup that removes the entry it finds (dict.pop)
JobStoreGetLookupPop(t) ==
  /\ ThreadAt(t, "get_lookup")
  /\ thread' = [thread EXCEPT ![t].found = thread[t].job_id \in DOMAIN jobs,
                              ![t].pc = "get_unlock"]
  /\ jobs' = [k \in DOMAIN jobs \ {thread[t].job_id} |-> jobs[k]]
  /\ UNCHANGED <<call, crawl, sheet, lock, progress, worker, returned>>

\* a lookup that reports a job for every id
JobStoreGetLookupAlways(t) ==
  /\ ThreadAt(t, "get_lookup")
  /\ thread' = [thread EXCEPT ![t].found = TRUE, ![t].pc = "get_unlock"]
  /\ UNCHANGED <<call, crawl, sheet, jobs, lock, progress, worker, returned>>

\* api/jobs.py 60: self._jobs.get(job_id)
JobStoreGetLookup(t) ==
  /\ ThreadAt(t, "get_lookup")
  /\ thread' = [thread EXCEPT ![t].found = thread[t].job_id \in DOMAIN jobs,
                              ![t].pc = "get_unlock"]
  /\ UNCHANGED <<call, crawl, sheet, jobs, lock, progress, worker, returned>>

\* api/jobs.py 59-60: the with block ends (release), return; then
\* scrape.py 128-129: no job -> 404, otherwise line 131 calls job.snapshot()
JobStoreGetUnlock(t) ==
  /\ ThreadAt(t, "get_unlock")
  /\ lock' = "free"
  /\ thread' = [thread EXCEPT
       ![t].pc = IF thread[t].found THEN "snap_if_url" ELSE "respond",
       ![t].code = IF thread[t].found THEN "none" ELSE "404"]
  /\ UNCHANGED <<call, crawl, sheet, jobs, progress, worker, returned>>

\* the ScrapeProgress the handler's job refers to
Prog(t) == progress[thread[t].job_id]

\* api/jobs.py 22, first operand: if self.progress.current_url
SnapshotIfCurrentUrl(t) ==
  /\ ThreadAt(t, "snap_if_url")
  /\ thread' = [thread EXCEPT
       ![t].pc = IF Prog(t).current_url # NoUrl
                 THEN "snap_if_started" ELSE "snap_total"]
  /\ UNCHANGED <<call, crawl, sheet, jobs, lock, progress, worker, returned>>

\* api/jobs.py 22, second operand: and self.progress.current_started_at
SnapshotIfCurrentStartedAt(t) ==
  /\ ThreadAt(t, "snap_if_started")
  /\ thread' = [thread EXCEPT
       ![t].pc = IF Prog(t).current_started_at # None
                 THEN "snap_elapsed" ELSE "snap_total"]
  /\ UNCHANGED <<call, crawl, sheet, jobs, lock, progress, worker, returned>>

\* api/jobs.py 23: int(max(0, now - self.progress.current_started_at)), a
\* second read of the field; float - None raises TypeError, which leaves
\* snapshot and job_status (a 500 response)
SnapshotCurrentElapsed(t) ==
  /\ ThreadAt(t, "snap_elapsed")
  /\ thread' = [thread EXCEPT ![t] =
       IF Prog(t).current_started_at # None
       THEN [@ EXCEPT !.snap.current_elapsed_seconds = "since_current_start",
                      !.pc = "snap_total"]
       ELSE [@ EXCEPT !.pc = "respond", !.code = "500"]]
  /\ UNCHANGED <<call, crawl, sheet, jobs, lock, progress, worker, returned>>

\* api/jobs.py 25-26: started_at is set, so total_elapsed is
\* (self.progress.finished_at or now) - started_at
SnapshotTotalElapsed(t) ==
  /\ ThreadAt(t, "snap_total")
  /\ thread' = [thread EXCEPT
       ![t].snap.total_elapsed_seconds =
          IF Prog(t).finished_at # None THEN "until_finished" ELSE "until_now",
       ![t].pc = "snap_done"]
  /\ UNCHANGED <<call, crawl, sheet, jobs, lock, progress, worker, returned>>

\* api/jobs.py 30: "done": self.progress.done
SnapshotDone(t) ==
  /\ ThreadAt(t, "snap_done")
  /\ thread' = [thread EXCEPT ![t].snap.done = Prog(t).done,
                              ![t].pc = "snap_percent"]
  /\ UNCHANGED <<call, crawl, sheet, jobs, lock, progress, worker, returned>>

\* api/jobs.py 31: "progress_percent": self.progress.progress_percent
SnapshotPercent(t) ==
  /\ ThreadAt(t, "snap_percent")
  /\ thread' = [thread EXCEPT
       ![t].snap.progress_percent = Prog(t).progress_percent,
       ![t].pc = "snap_current_url"]
  /\ UNCHANGED <<call, crawl, sheet, jobs, lock, progress, worker, returned>>

\* api/jobs.py 34: "current_url": self.progress.current_url
SnapshotCurrentUrl(t) ==
  /\ ThreadAt(t, "snap_current_url")
  /\ thread' = [thread EXCEPT ![t].snap.current_url = Prog(t).current_url,
                              ![t].pc = "snap_finished_at"]
  /\ UNCHANGED <<call, crawl, sheet, jobs, lock, progress, worker, returned>>

\* api/jobs.py 38: "finished_at": self.progress.finished_at
SnapshotFinishedAt(t) ==
  /\ ThreadAt(t, "snap_finished_at")
  /\ thread' = [thread EXCEPT ![t].snap.finished_at = Prog(t).finished_at,
                              ![t].pc = "snap_completed"]
  /\ UNCHANGED <<call, crawl, sheet, jobs, lock, progress, worker, returned>>

\* api/jobs.py 40-42: "total_urls": len(self.urls), "completed_urls":
\* len(self.progress.results); the dict is returned and scrape.py 131-148
\* builds the 200 response from it
SnapshotCompleted(t) ==
  /\ ThreadAt(t, "snap_completed")
  /\ thread' = [thread EXCEPT
       ![t].snap.total_urls = Len(jobs[thread[t].job_id].urls),
       ![t].snap.completed_urls = Len(Prog(t).results),
       ![t].pc = "respond", ![t].code = "200"]
  /\ UNCHANGED <<call, crawl, sheet, jobs, lock, progress, worker, returned>>

JobStoreGet(t) ==
  \/ JobStoreGetLock(t)
  \/ JobStoreGetLookup(t)
  \/ JobStoreGetUnlock(t)

snapshot(t) ==
  \/ SnapshotIfCurrentUrl(t)
  \/ SnapshotIfCurrentStartedAt(t)
  \/ SnapshotCurrentElapsed(t)
  \/ SnapshotTotalElapsed(t)
  \/ SnapshotDone(t)
  \/ SnapshotPercent(t)
  \/ SnapshotCurrentUrl(t)
  \/ SnapshotFinishedAt(t)
  \/ SnapshotCompleted(t)

job_status(t) == JobStoreGet(t) \/ snapshot(t)

(***************************************************************************)
(* Spec: the requests are served one at a time (handler thread "t1")       *)
(* while the workers they started run concurrently with them.              *)
(***************************************************************************)
SerialThreads == {"t1"}

Next ==
  \/ \E t \in SerialThreads : scrape_batch(t, MaxJobs, Payloads)
  \/ \E t \in SerialThreads : job_status(t)
  \/ \E t \in SerialThreads : Respond(t)
  \/ \E j \in JobIds : Worker(j)

Spec == Init /\ [][Next]_vars

(***************************************************************************)
(* SpecStore: the handler threads run concurrently on the job store while  *)
(* the workers are not scheduled (they touch neither the store nor its     *)
(* lock). With no worker step current_url is never set, so the two         *)
(* snapshot steps that follow a set current_url cannot occur.              *)
(***************************************************************************)
\* request bodies of the job store specification: at most one URL
StorePayloads ==
  {p \in Payloads : p.rescrape_urls = <<>> /\ Len(p.fund_urls) <= 1}

snapshotIdle(t) ==
  \/ SnapshotIfCurrentUrl(t)
  \/ SnapshotTotalElapsed(t)
  \/ SnapshotDone(t)
  \/ SnapshotPercent(t)
  \/ SnapshotCurrentUrl(t)
  \/ SnapshotFinishedAt(t)
  \/ SnapshotCompleted(t)

NextStore ==
  \/ \E t \in Threads : scrape_batch(t, MaxStoreJobs, StorePayloads)
  \/ \E t \in Threads : JobStoreGet(t)
  \/ \E t \in Threads : snapshotIdle(t)
  \/ \E t \in Threads : Respond(t)

SpecStore == Init /\ [][NextStore]_vars

(***************************************************************************)
(* SpecDup: batches submitted one after another while the workers of the   *)
(* accepted ones run; up to MaxStoreJobs jobs, one URL each.               *)
(***************************************************************************)
NextDup ==
  \/ \E t \in SerialThreads : scrape_batch(t, MaxStoreJobs, StorePayloads)
  \/ \E t \in SerialThreads : Respond(t)
  \/ \E j \in JobIds : Worker(j)

SpecDup == Init /\ [][NextDup]_vars

(***************************************************************************)
(* Calls of the pure helpers. The job tracker is idle; Init draws the      *)
(* arguments of one call, the actions apply the helper.                    *)
(***************************************************************************)
trackerVars == <<sheet, jobs, lock, progress, worker, thread, returned>>

IdleTracker ==
  /\ sheet = <<>>
  /\ jobs = <<>>
  /\ lock = "free"
  /\ progress = <<>>
  /\ worker = <<>>
  /\ thread = [t \in Threads |-> IdleThread]
  /\ returned = {}

\* raw URLs of a call of the dedup gate: two spellings of one page, a
\* second page of the same host, another host, two pages of the register
UrlAY == <<"https", ":", "/", "/", "a.org", "/", "y">>
RegisterX == <<"https", ":", "/", "/", RegisterHost, "/", "x">>
RegisterY == <<"https", ":", "/", "/", RegisterHost, "/", "y">>
GateUrls == {UrlA, UrlASlash, UrlAY, UrlB, RegisterX, RegisterY}

\* fund_url values of the rows of the sheet
SheetRows == {UrlASlash, UrlB, RegisterX}

\* allow_rescrape arguments: None (the empty set) or one URL
AllowSets == {{}} \cup {{u} : u \in GateUrls}

GateCalls ==
  [fn : {"prepare_urls_for_scrape"}, pc : {"start"},
   raw_urls : SeqsUpTo(GateUrls, MaxGateLen),
   rows : SeqsUpTo(SheetRows, MaxSheetRows), loaded : BOOLEAN,
   allow_rescrape : AllowSets, out : {PrepareResult(PrepareStart)}]

InitGate == IdleTracker /\ crawl = NoCrawl /\ call \in GateCalls

\* the processed set that line 32 reads at the call
ProcessedAt(c) == get_already_processed_urls(c.rows, c.loaded)

\* scrape.py 22-58: one call of _prepare_urls_for_scrape
GateApply ==
  /\ call.fn = "prepare_urls_for_scrape"
  /\ call.pc = "start"
  /\ call' = [call EXCEPT
       !.pc = "returned",
       !.out = prepare_urls_for_scrape(call.raw_urls, ProcessedAt(call),
                                       call.allow_rescrape)]
  /\ UNCHANGED <<trackerVars, crawl>>

SpecGate == InitGate /\ [][GateApply]_vars

\* calls of normalize_url and canon_funder_url, each applied to a URL and
\* then to its own result
CanonCalls ==
  [fn : {"normalize_url", "canon_funder_url"}, pc : {"start"},
   url : CanonInputs, once : {<<>>}, twice : {<<>>}]

InitCanon == IdleTracker /\ crawl = NoCrawl /\ call \in CanonCalls

\* tools.py 106-113: normalize_url(url) returns
NormalizeApply ==
  /\ call.fn = "normalize_url"
  /\ call.pc = "start"
  /\ ~UrlparseRaises(call.url)
  /\ call' = [call EXCEPT !.pc = "once", !.once = normalize_url(call.url)]
  /\ UNCHANGED <<trackerVars, crawl>>

\* tools.py 108: urlparse raises out of normalize_url
NormalizeRaise ==
  /\ call.fn = "normalize_url"
  /\ call.pc = "start"
  /\ UrlparseRaises(call.url)
  /\ call' = [call EXCEPT !.pc = "raised"]
  /\ UNCHANGED <<trackerVars, crawl>>

\* normalize_url applied to its own result
NormalizeAgain ==
  /\ call.fn = "normalize_url"
  /\ call.pc = "once"
  /\ ~UrlparseRaises(call.once)
  /\ call' = [call EXCEPT !.pc = "twice", !.twice = normalize_url(call.once)]
  /\ UNCHANGED <<trackerVars, crawl>>

\* tools.py 447-474: canon_funder_url(url) returns
CanonApply ==
  /\ call.fn = "canon_funder_url"
  /\ call.pc = "start"
  /\ call' = [call EXCEPT !.pc = "once", !.once = canon_funder_url(call.url)]
  /\ UNCHANGED <<trackerVars, crawl>>

\* canon_funder_url applied to its own result
CanonAgain ==
  /\ call.fn = "canon_funder_url"
  /\ call.pc = "once"
  /\ call' = [call EXCEPT !.pc = "twice",
                          !.twice = canon_funder_url(call.once)]
  /\ UNCHANGED <<trackerVars, crawl>>

NextCanon ==
  \/ NormalizeApply
  \/ NormalizeRaise
  \/ NormalizeAgain
  \/ CanonApply
  \/ CanonAgain

SpecCanon == InitCanon /\ [][NextCanon]_vars

(***************************************************************************)
(* utils/tools.py fetch_page: one page, fetched with retries.              *)
(***************************************************************************)
\* Retry-After header of a 429 response: absent, delay-seconds, or an
\* HTTP-date (RFC 9110 allows both forms)
RetryAfterValues == {"absent", "120", "Wed, 21 Oct 2015 07:28:00 GMT"}

\* what requests.get does in one attempt: a response with a status and a
\* body, or a RequestException (connection error, timeout)
Responses ==
  [kind : {"response"}, status_code : {"200"}, text : {"html", ""},
   retry_after : {"absent"}]
  \cup [kind : {"response"}, status_code : {"429"}, text : {""},
        retry_after : RetryAfterValues]
  \cup [kind : {"response"}, status_code : {"500"}, text : {""},
        retry_after : {"absent"}]
  \cup [kind : {"RequestException"}, status_code : {"none"}, text : {""},
        retry_after : {"absent"}]

\* line 168: int(resp.headers.get("Retry-After", <int>)) raises ValueError
\* unless the header is absent or a decimal number
IntRaises(retry_after) == retry_after \notin {"absent", "120"}

FetchCalls ==
  [fn : {"fetch_page"}, pc : {"loop"}, retries : 0..MaxRetries,
   attempt : {0}, responses : {<<>>}, sleeps : {0}, result : {None}]

InitFetch == IdleTracker /\ crawl = NoCrawl /\ call \in FetchCalls

FetchAt(pc) == call.fn = "fetch_page" /\ call.pc = pc

\* line 164: for attempt in range(retries), with the request of line 166
Attempting(resp) ==
  /\ FetchAt("loop")
  /\ call.attempt < call.retries
  /\ resp \in Responses

\* lines 166, 172-173: a response that is no error; its text is returned
FetchPageSuccess ==
  \E resp \in Responses :
    /\ Attempting(resp)
    /\ resp.kind = "response" /\ resp.status_code = "200"
    /\ call' = [call EXCEPT !.pc = "returned",
                            !.responses = Append(@, resp),
                            !.result = resp.text]
    /\ UNCHANGED <<trackerVars, crawl>>

\* lines 167-171: a 429 whose wait is computed; sleep and next attempt
FetchPageRateLimited ==
  \E resp \in Responses :
    /\ Attempting(resp)
    /\ resp.kind = "response" /\ resp.status_code = "429"
    /\ ~IntRaises(resp.retry_after)
    /\ call' = [call EXCEPT !.attempt = @ + 1,
                            !.responses = Append(@, resp),
                            !.sleeps = @ + 1]
    /\ UNCHANGED <<trackerVars, crawl>>

\* line 168: a 429 whose Retry-After is no number; the ValueError of int()
\* is no RequestException and leaves fetch_page
FetchPageRateLimitedRaises ==
  \E resp \in Responses :
    /\ Attempting(resp)
    /\ resp.kind = "response" /\ resp.status_code = "429"
    /\ IntRaises(resp.retry_after)
    /\ call' = [call EXCEPT !.pc = "raised",
                            !.responses = Append(@, resp)]
    /\ UNCHANGED <<trackerVars, crawl>>

\* lines 172, 174-180: raise_for_status or requests.get raises a
\* RequestException; sleep unless this was the last attempt
FetchPageRequestException ==
  \E resp \in Responses :
    /\ Attempting(resp)
    /\ \/ resp.kind = "RequestException"
       \/ resp.kind = "response" /\ resp.status_code = "500"
    /\ call' = [call EXCEPT
         !.attempt = @ + 1,
         !.responses = Append(@, resp),
         !.sleeps = IF call.attempt < call.retries - 1 THEN @ + 1 ELSE @]
    /\ UNCHANGED <<trackerVars, crawl>>

\* line 181: the attempts are used up, return None
FetchPageGiveUp ==
  /\ FetchAt("loop")
  /\ call.attempt >= call.retries
  /\ call' = [call EXCEPT !.pc = "returned", !.result = None]
  /\ UNCHANGED <<trackerVars, crawl>>

NextFetch ==
  \/ FetchPageSuccess
  \/ FetchPageRateLimited
  \/ FetchPageRateLimitedRaises
  \/ FetchPageRequestException
  \/ FetchPageGiveUp

SpecFetch == InitFetch /\ [][NextFetch]_vars

(***************************************************************************)
(* utils/tools.py discover_links: the breadth-first discovery crawl.       *)
(***************************************************************************)
\* pairs <<t, u>> of different tokens where the text of t starts with, ends
\* with, or contains the text of u
TokPrefixes == {<<"1234", "123">>}
TokSuffixes == {<<"nota.org", "a.org">>}
TokInfixes == TokPrefixes \cup TokSuffixes

TokStartsWith(t, u) == t = u \/ <<t, u>> \in TokPrefixes
TokEndsWith(t, u) == t = u \/ <<t, u>> \in TokSuffixes
TokContains(t, u) == t = u \/ <<t, u>> \in TokInfixes

\* str.startswith on token sequences: the last token of the prefix may
\* match the beginning of a longer token
StartsWith(s, p) ==
  \/ p = <<>>
  \/ /\ Len(p) <= Len(s)
     /\ SubSeq(s, 1, Len(p) - 1) = SubSeq(p, 1, Len(p) - 1)
     /\ TokStartsWith(s[Len(p)], p[Len(p)])

\* the substring test `sub in s` on token sequences: the first and the last
\* token of sub may match the end and the beginning of longer tokens
Contains(s, sub) ==
  \/ sub = <<>>
  \/ /\ Len(sub) = 1
     /\ \E i \in DOMAIN s : TokContains(s[i], sub[1])
  \/ /\ Len(sub) >= 2
     /\ \E i \in 0..(Len(s) - Len(sub)) :
          /\ TokEndsWith(s[i + 1], sub[1])
          /\ SubSeq(s, i + 2, i + Len(sub) - 1) = SubSeq(sub, 2, Len(sub) - 1)
          /\ TokStartsWith(s[i + Len(sub)], sub[Len(sub)])

\* urllib.parse.urlunparse
urlunparse(scheme, netloc, path, params, query, fragment) ==
  (IF scheme # <<>> THEN scheme \o <<":">> ELSE <<>>)
    \o (IF netloc # <<>> THEN <<"/", "/">> \o netloc ELSE <<>>)
    \o path
    \o (IF params # <<>> THEN <<";">> \o params ELSE <<>>)
    \o (IF query # <<>> THEN <<"?">> \o query ELSE <<>>)
    \o (IF fragment # <<>> THEN <<"#">> \o fragment ELSE <<>>)

\* schemes that urljoin resolves against a base (urllib.parse.uses_relative)
UsesRelative == {<<>>, <<"http">>, <<"https">>}

\* urljoin, the directory of the base path: the path up to its last "/"
BaseDir(bpath) ==
  IF LastIndex(bpath, "/", Len(bpath)) = 0 THEN <<"/">>
  ELSE Slice(bpath, 1, LastIndex(bpath, "/", Len(bpath)))

\* urllib.parse.urljoin(base, url), for paths without "." and ".." segments
urljoin(base, url) ==
  LET b == urlparse(base)
      u == urlparse(url)
      scheme == IF u.scheme # <<>> THEN u.scheme ELSE b.scheme
  IN IF url = <<>> THEN base
     ELSE IF scheme # b.scheme \/ scheme \notin UsesRelative THEN url
     ELSE IF u.netloc # <<>>
     THEN urlunparse(scheme, u.netloc, u.path, u.params, u.query, u.fragment)
     ELSE IF u.path = <<>> /\ u.params = <<>>
     THEN urlunparse(scheme, b.netloc, b.path, b.params,
                     IF u.query # <<>> THEN u.query ELSE b.query, u.fragment)
     ELSE IF u.path # <<>> /\ u.path[1] = "/"
     THEN urlunparse(scheme, b.netloc, u.path, u.params, u.query, u.fragment)
     ELSE urlunparse(scheme, b.netloc, BaseDir(b.path) \o u.path, u.params,
                     u.query, u.fragment)

\* tokens that re.search(r"\d+") matches in full
DigitToks == {"123", "456", "1234"}

\* host names that contain "charitycommission.gov.uk"
CharityCommissionToks == {RegisterHost}
IsCharityCommission(netloc) ==
  \E i \in DOMAIN netloc : netloc[i] \in CharityCommissionToks

\* lines 135-138: the path of a Charity Commission details page is cut
\* after the charity id
CharityDetailsPath(path) ==
  IF \E i \in 1..(Len(path) - 3) :
       /\ SubSeq(path, i, i + 2) = <<"/", "charity-details", "/">>
       /\ path[i + 3] \in DigitToks
  THEN LET i == CHOOSE k \in 1..(Len(path) - 3) :
                  /\ SubSeq(path, k, k + 2) = <<"/", "charity-details", "/">>
                  /\ path[k + 3] \in DigitToks
                  /\ \A m \in 1..(k - 1) :
                       ~(/\ SubSeq(path, m, m + 2) = <<"/", "charity-details", "/">>
                         /\ path[m + 3] \in DigitToks)
       IN <<"/", "en", "/", "charity-search", "/", "-",
            "/", "charity-details", "/", path[i + 3]>>
  ELSE path

\* utils/tools.py 116-142
initial_normalize_url(url) ==
  LET parsed == urlparse(url)
      scheme == IF parsed.scheme # <<>> THEN parsed.scheme ELSE <<"https">>
      netloc == DropWww(lower(parsed.netloc))
      path == rstrip(IF parsed.path # <<>> THEN parsed.path ELSE <<"/">>, "/")
  IN IF url = <<>> THEN url
     ELSE scheme \o <<":", "/", "/">> \o netloc
            \o (IF /\ IsCharityCommission(netloc)
                   /\ Contains(path, <<"/", "charity-details", "/">>)
                THEN CharityDetailsPath(path) ELSE path)

\* line 228: file names with one of the skipped extensions
BinaryToks == {"f.pdf"}

\* seeds: a page of a general site, a details page of the register
CharitySeed ==
  <<"https", ":", "/", "/", RegisterHost, "/", "en", "/", "charity-search",
    "/", "-", "/", "charity-details", "/", "123", "/", "charity-overview">>
CharitySeedWww ==
  <<"https", ":", "/", "/", "www.", RegisterHost, "/", "en", "/",
    "charity-search", "/", "-", "/", "charity-details", "/", "123">>
UrlAWww == <<"https", ":", "/", "/", "www.", "a.org", "/", "x">>
SeedUrls == {UrlASlash, UrlAWww, CharitySeed, CharitySeedWww}

\* href attributes of the anchors of the fetched pages
CharityAccounts ==
  <<"https", ":", "/", "/", RegisterHost, "/", "en", "/", "charity-search",
    "/", "-", "/", "charity-details", "/", "123", "/", "accounts">>
CharityOther ==
  <<"https", ":", "/", "/", RegisterHost, "/", "en", "/", "charity-search",
    "/", "-", "/", "charity-details", "/", "456">>
CharityLonger ==
  <<"https", ":", "/", "/", RegisterHost, "/", "en", "/", "charity-search",
    "/", "-", "/", "charity-details", "/", "1234">>
Hrefs ==
  {UrlA, UrlASlash,
   <<"https", ":", "/", "/", "nota.org", "/", "x">>,
   <<"https", ":", "/", "/", "[", "a.org">>,
   CharityLonger,
   <<"https", ":", "/", "/", "a.org", "/", "y", "#", "f">>,
   <<"z">>,
   <<"/", "f.pdf">>,
   <<"mailto", ":", "x">>,
   UrlB,
   CharityAccounts, CharityOther}

\* a depth comparison that always passes
WithinDepthAlways(depth, discovery_depth) == TRUE

\* the comparison with discovery_depth of lines 206 and 244
WithinDepth(depth, discovery_depth) == depth <= discovery_depth

\* line 197-202: the locals of discover_links before the loop
CrawlStart(seed_url, discovery_depth, max_pages) ==
  [pc |-> "loop",
   seed_base |-> initial_normalize_url(seed_url),
   base_domain |-> DropWww(urlparse(normalize_url(seed_url)).netloc),
   discovery_depth |-> discovery_depth,
   max_pages |-> max_pages,
   queue |-> <<<<normalize_url(seed_url), 0>>>>,
   visited |-> {},
   candidates |-> {},
   pages_visited |-> 0,
   paused |-> FALSE,
   fetched |-> <<>>]

\* a skip test without the page budget
SkipPageUnbudgeted(c, url, depth) ==
  \/ url \in c.visited
  \/ ~WithinDepth(depth, c.discovery_depth)

\* a skip test without the visited set
SkipPageRevisiting(c, url, depth) ==
  \/ ~WithinDepth(depth, c.discovery_depth)
  \/ c.pages_visited >= c.max_pages

\* line 206: the test that skips a dequeued item
SkipPage(c, url, depth) ==
  \/ url \in c.visited
  \/ ~WithinDepth(depth, c.discovery_depth)
  \/ c.pages_visited >= c.max_pages

\* lines 221-232: the filters an anchor must pass, on the joined href
FollowedHref(c, href) ==
  /\ href # <<>> /\ href[1] \in {"http", "https"}
  /\ Contains(urlparse(href).netloc, c.base_domain)
  /\ LowerTok(href[Len(href)]) \notin BinaryToks
  /\ IsCharityCommission(c.base_domain) => StartsWith(href, c.seed_base)

\* lines 221-245: one anchor of the page `url` dequeued at `depth`
AnchorStep(c, url, depth, raw) ==
  LET href == urljoin(url, SplitAt(raw, "#")[1])
      hnorm == normalize_url(href)
  IN IF ~FollowedHref(c, href) THEN c
     ELSE [c EXCEPT
            !.candidates = @ \cup {hnorm},
            !.queue = IF /\ hnorm \notin c.visited
                         /\ WithinDepth(depth + 1, c.discovery_depth)
                      THEN Append(@, <<hnorm, depth + 1>>) ELSE @]

\* line 221: urljoin raises ValueError for an href whose host has an
\* unmatched bracket
AnchorRaises(raw) == UrlparseRaises(SplitAt(raw, "#")[1])

RECURSIVE AnchorLoop(_, _, _, _)
\* line 220: for a in soup.find_all("a", href=True); an anchor that raises
\* ends discover_links
AnchorLoop(c, url, depth, anchors) ==
  IF anchors = <<>> THEN c
  ELSE IF AnchorRaises(Head(anchors)) THEN [c EXCEPT !.pc = "raised"]
  ELSE AnchorLoop(AnchorStep(c, url, depth, Head(anchors)), url, depth,
                  Tail(anchors))

CrawlAt(pc) == crawl.pc = pc

\* lines 208-211: the dequeued page is marked visited, counted and fetched;
\* the fetch log notes what fetch_page did ("page", "nothing", "raised") and
\* whether line 247 ran since the fetch before
Visit(c, url, depth, html) ==
  [c EXCEPT !.queue = Tail(@),
            !.visited = @ \cup {url},
            !.pages_visited = @ + 1,
            !.paused = FALSE,
            !.fetched = Append(@, [url |-> url, depth |-> depth,
                                   counter |-> c.pages_visited,
                                   html |-> html, paused |-> c.paused])]

\* line 247: time.sleep(PAUSE_BETWEEN_REQUESTS), reached when the anchor
\* loop ended without an exception
Pause(c) == IF c.pc = "raised" THEN c ELSE [c EXCEPT !.paused = TRUE]

\* lines 205-207: an item is dequeued and skipped
CrawlSkip ==
  /\ CrawlAt("loop")
  /\ crawl.queue # <<>>
  /\ SkipPage(crawl, Head(crawl.queue)[1], Head(crawl.queue)[2])
  /\ crawl' = [crawl EXCEPT !.queue = Tail(@)]
  /\ UNCHANGED <<trackerVars, call>>

\* lines 205-213: an item is dequeued and visited, fetch_page returns None
\* or an empty text
CrawlFetchNothing ==
  /\ CrawlAt("loop")
  /\ crawl.queue # <<>>
  /\ ~SkipPage(crawl, Head(crawl.queue)[1], Head(crawl.queue)[2])
  /\ crawl' = Visit(crawl, Head(crawl.queue)[1], Head(crawl.queue)[2],
                    "nothing")
  /\ UNCHANGED <<trackerVars, call>>

\* lines 205-211: an item is dequeued and visited, fetch_page raises (line
\* 168 of fetch_page) and the exception leaves discover_links
CrawlFetchRaises ==
  /\ CrawlAt("loop")
  /\ crawl.queue # <<>>
  /\ ~SkipPage(crawl, Head(crawl.queue)[1], Head(crawl.queue)[2])
  /\ crawl' = [Visit(crawl, Head(crawl.queue)[1], Head(crawl.queue)[2],
                      "raised")
                 EXCEPT !.pc = "raised"]
  /\ UNCHANGED <<trackerVars, call>>

\* lines 205-247: an item is dequeued and visited, the page is fetched and
\* its anchors are followed
CrawlFetchPage ==
  /\ CrawlAt("loop")
  /\ crawl.queue # <<>>
  /\ ~SkipPage(crawl, Head(crawl.queue)[1], Head(crawl.queue)[2])
  /\ \E anchors \in SeqsUpTo(Hrefs, MaxAnchors) :
       crawl' = Pause(AnchorLoop(Visit(crawl, Head(crawl.queue)[1],
                                       Head(crawl.queue)[2], "page"),
                                 Head(crawl.queue)[1], Head(crawl.queue)[2],
                                 anchors))
  /\ UNCHANGED <<trackerVars, call>>

\* lines 204, 250: the queue is empty, discover_links returns
CrawlReturn ==
  /\ CrawlAt("loop")
  /\ crawl.queue = <<>>
  /\ crawl' = [crawl EXCEPT !.pc = "returned"]
  /\ UNCHANGED <<trackerVars, call>>

InitCrawl ==
  /\ IdleTracker
  /\ call = NoCall
  /\ \E seed_url \in SeedUrls, discovery_depth \in 0..MaxDiscoveryDepth,
        max_pages \in 0..MaxDiscoveryPages :
       crawl = CrawlStart(seed_url, discovery_depth, max_pages)

NextCrawl ==
  \/ CrawlSkip
  \/ CrawlFetchNothing
  \/ CrawlFetchRaises
  \/ CrawlFetchPage
  \/ CrawlReturn

SpecCrawl == InitCrawl /\ [][NextCrawl]_vars

\* discover_links runs in one thread that is never suspended for good
SpecCrawlFair == SpecCrawl /\ WF_vars(NextCrawl)

(***************************************************************************)
(* utils/tools.py score_candidate and prioritized_crawl: the candidates    *)
(* of a crawl are scored, sorted, cut to the best MAX_PAGES and fetched.   *)
(***************************************************************************)
\* utils/constants.py
MAX_PAGES == 15

\* utils/constants.py KEYWORDS
KEYWORDS ==
  {"grant", "grants", "apply", "fund", "funding", "eligible", "eligibility",
   "criteria", "who-can-apply", "what-we-fund", "apply-for",
   "apply-for-funding", "support", "programme", "award", "awarded",
   "application", "guidelines"}

\* the path segments of the candidate URLs, in the order of str comparison
\* (no segment is the beginning of another)
RankSegments ==
  <<"grants", "p01", "p02", "p03", "p04", "p05", "p06", "p07", "p08",
    "p09", "p10", "p11", "p12", "p13", "p14", "p15", "x", "y", "z">>

\* len() of one token
TokLen(t) ==
  CASE t \in {":", "/", "x", "y", "z"} -> 1
    [] t \in {"https", "a.org"} -> 5
    [] t = "grants" -> 6
    [] OTHER -> 3

RECURSIVE StrLen(_)
\* len(url)
StrLen(s) == IF s = <<>> THEN 0 ELSE TokLen(Head(s)) + StrLen(Tail(s))

\* pairs <<t, kw>> of a token and a keyword that is a part of it
KeywordInfixes == {<<"grants", "grant">>}

\* the keywords kw with `kw in u`
KeywordsIn(u) ==
  {kw \in KEYWORDS :
     \E i \in DOMAIN u : LowerTok(u[i]) = kw
                         \/ <<LowerTok(u[i]), kw>> \in KeywordInfixes}

\* the texts found around a link, and those with a keyword in them
PageTexts == {"Apply for a grant", "About us"}
HasKeyword(text) == text = "Apply for a grant"

\* the number of texts of a set that have a keyword
KeywordTexts(texts) == Cardinality({t \in texts : HasKeyword(t)})

RECURSIVE lstrip(_, _)
\* str.lstrip(c)
lstrip(s, c) == IF s # <<>> /\ Head(s) = c THEN lstrip(Tail(s), c) ELSE s

\* len(path.strip("/").split("/"))
PathParts(path) ==
  Len(SelectSeq(lstrip(rstrip(path, "/"), "/"), LAMBDA t : t = "/")) + 1

MaxOf(a, b) == IF a >= b THEN a ELSE b
MinOf(a, b) == IF a <= b THEN a ELSE b

\* score_candidate, in fiftieths (line 270 adds 10 - len(url) / 50, a
\* multiple of 1/50)
score_candidate(url, meta) ==
  50 * (50 * Cardinality(KeywordsIn(url))
        + 25 * KeywordTexts(meta.anchor_texts)
        + 10 * KeywordTexts(meta.source_titles)
        + 7 * KeywordTexts(meta.source_snippets)
        - 3 * MaxOf(0, PathParts(urlparse(url).path) - 3))
  + MaxOf(0, 500 - StrLen(url))

\* the position of a path segment in the order of str comparison
SegmentRank(t) == CHOOSE i \in DOMAIN RankSegments : RankSegments[i] = t

RECURSIVE StrLess(_, _)
\* a < b for two strings: the first difference decides, and a string is
\* greater than its proper beginnings
StrLess(a, b) ==
  IF b = <<>> THEN FALSE
  ELSE IF a = <<>> THEN TRUE
  ELSE IF Head(a) = Head(b) THEN StrLess(Tail(a), Tail(b))
  ELSE SegmentRank(Head(a)) < SegmentRank(Head(b))

\* (score, url) < (score, url) for two tuples
TupleLess(a, b) == a[1] < b[1] \/ (a[1] = b[1] /\ StrLess(a[2], b[2]))

RECURSIVE InsertReverse(_, _)
\* e takes its place in a list sorted downwards, behind its equals
InsertReverse(sorted, e) ==
  IF sorted = <<>> THEN <<e>>
  ELSE IF TupleLess(Head(sorted), e) THEN <<e>> \o sorted
  ELSE <<Head(sorted)>> \o InsertReverse(Tail(sorted), e)

RECURSIVE SortReverse(_)
\* list.sort(reverse=True): downwards, equal elements in their old order
SortReverse(s) ==
  IF s = <<>> THEN <<>>
  ELSE InsertReverse(SortReverse(SubSeq(s, 1, Len(s) - 1)), s[Len(s)])

\* dict.setdefault(key, value) on a dict kept as the list of its items
SetDefault(items, key, value) ==
  IF \E i \in DOMAIN items : items[i][1] = key THEN items
  ELSE Append(items, <<key, value>>)

\* line 283: the list of (score, url) in the order of the dict
Scored(items) ==
  [i \in DOMAIN items |-> <<score_candidate(items[i][1], items[i][2]),
                            items[i][1]>>]

\* a cut that keeps every url
TopLinksUncut(scored) == [i \in DOMAIN scored |-> scored[i][2]]

\* line 286: [url for _, url in scored[:MAX_PAGES]]
TopLinks(scored) ==
  [i \in 1..MinOf(Len(scored), MAX_PAGES) |-> scored[i][2]]

\* candidate URLs: the seed's page, two pages like it, a page with keywords
\* in its address, a page four segments deep
UrlAZ == <<"https", ":", "/", "/", "a.org", "/", "z">>
UrlGrants == <<"https", ":", "/", "/", "a.org", "/", "grants">>
UrlDeep == <<"https", ":", "/", "/", "a.org", "/", "y", "/", "z", "/", "x",
             "/", "y">>
RankPool == {UrlA, UrlAY, UrlAZ, UrlGrants, UrlDeep}

\* k further pages https://a.org/p01 ... in the order of their discovery
Fillers(k) ==
  [i \in 1..k |-> <<"https", ":", "/", "/", "a.org", "/", RankSegments[i + 1]>>]

\* the lists of distinct urls of length <= n
DistinctSeqs(S, n) == {s \in SeqsUpTo(S, n) : Cardinality(Range(s)) = Len(s)}

\* the keys of a candidate map in the order of their insertion: up to three
\* pages, or up to two pages and so many more that the cut of line 286 is
\* reached
DiscoveryOrders ==
  DistinctSeqs(RankPool, MaxRankHead + 1)
  \cup {head \o Fillers(k) :
          head \in DistinctSeqs(RankPool \ {UrlDeep}, MaxRankHead),
          k \in (MAX_PAGES - 2)..MAX_PAGES}

\* line 237: the texts collected for a link
PlainMeta ==
  [anchor_texts |-> {"About us"}, source_titles |-> {},
   source_snippets |-> {}]
KeywordMeta ==
  [anchor_texts |-> {"Apply for a grant"}, source_titles |-> {"About us"},
   source_snippets |-> {}]
\* line 282: the value of the seed's entry when no page links to the seed
EmptyMeta ==
  [anchor_texts |-> {}, source_titles |-> {}, source_snippets |-> {}]

\* the dict returned by discover_links (line 281): its items in the order
\* of insertion, the page `boosted` found with a keyword in its link text
CandidateItems(order, boosted) ==
  [i \in DOMAIN order |->
     <<order[i], IF order[i] = boosted THEN KeywordMeta ELSE PlainMeta>>]

RankCalls ==
  [fn : {"prioritized_crawl"}, pc : {"discovered"}, seed_url : {UrlASlash},
   discovered : DiscoveryOrders, boosted : {NoUrl, UrlAY},
   candidates : {<<>>}, top_links : {<<>>}, i : {0}, all_text : {<<>>},
   failed : {0}, paused : {FALSE}, result : {None}]

InitRank == IdleTracker /\ crawl = NoCrawl /\ call \in RankCalls

RankAt(pc) == call.fn = "prioritized_crawl" /\ call.pc = pc

\* lines 277-286: the seed joins the candidates, the candidates are scored
\* and sorted, the best MAX_PAGES are kept
RankSelect ==
  /\ RankAt("discovered")
  /\ LET items == SetDefault(CandidateItems(call.discovered, call.boosted),
                             normalize_url(call.seed_url), EmptyMeta)
     IN call' = [call EXCEPT
                   !.pc = "fetching",
                   !.candidates = items,
                   !.top_links = TopLinks(SortReverse(Scored(items)))]
  /\ UNCHANGED <<trackerVars, crawl>>

\* line 290: the next url of top_links
RankFetching ==
  /\ RankAt("fetching")
  /\ call.i < Len(call.top_links)

\* lines 291, 294-300: the page is fetched, its text kept, then the pause
RankFetchPage ==
  /\ RankFetching
  /\ call' = [call EXCEPT !.i = @ + 1,
                          !.all_text = Append(@, call.top_links[call.i + 1]),
                          !.paused = TRUE]
  /\ UNCHANGED <<trackerVars, crawl>>

\* lines 291-293: fetch_page returns None or an empty text; next url
RankFetchNothing ==
  /\ RankFetching
  /\ call.failed < MaxFetchFailures
  /\ call' = [call EXCEPT !.i = @ + 1, !.failed = @ + 1, !.paused = FALSE]
  /\ UNCHANGED <<trackerVars, crawl>>

\* line 291: fetch_page raises (FetchPageRateLimitedRaises)
RankFetchRaises ==
  /\ RankFetching
  /\ call' = [call EXCEPT !.pc = "raised"]
  /\ UNCHANGED <<trackerVars, crawl>>

\* lines 302-303: return combined_text, domain_folder, len(all_text),
\* top_links
RankReturn ==
  /\ RankAt("fetching")
  /\ call.i = Len(call.top_links)
  /\ call' = [call EXCEPT
       !.pc = "returned",
       !.result = [fetched |-> Len(call.all_text),
                   top_links |-> call.top_links]]
  /\ UNCHANGED <<trackerVars, crawl>>

NextRank ==
  \/ RankSelect
  \/ RankFetchPage
  \/ RankFetchNothing
  \/ RankFetchRaises
  \/ RankReturn

SpecRank == InitRank /\ [][NextRank]_vars

(***************************************************************************)
(* SpecFair: Spec with every started worker thread scheduled again and     *)
(* again (the operating system runs a runnable thread, and each call of    *)
(* process_single_fund returns or raises).                                 *)
(***************************************************************************)
SpecFair == Spec /\ \A j \in JobIds : WF_vars(Worker(j))

(***************************************************************************)
(* Properties of the progress record.                                      *)
(***************************************************************************)
\* positions of the worker after the last iteration of its loop
AfterLoop == {"done", "finished_at", "exit"}

\* positions of a handler inside Job.snapshot with progress_percent read
PercentRead == {"snap_current_url", "snap_finished_at", "snap_completed"}

\* a handler that holds a complete snapshot (the 200 response)
HasSnapshot(t) == ThreadAt(t, "respond") /\ thread[t].code = "200"

\* C1: in every step, for every job, progress_percent does not decrease
\* and is within 0..100 before and after the step (a new job starts at 0).
PercentNeverDecreases ==
  [][/\ \A j \in DOMAIN progress :
          /\ j \in DOMAIN progress'
          /\ progress[j].progress_percent \in 0..100
          /\ progress'[j].progress_percent >= progress[j].progress_percent
     /\ \A j \in DOMAIN progress' :
          /\ progress'[j].progress_percent \in 0..100
          /\ j \notin DOMAIN progress => progress'[j].progress_percent = 0
    ]_vars

\* a job of two URLs, one call raising and one succeeding, at 100 percent
PercentWitness ==
  \E j \in DOMAIN progress :
    /\ Len(worker[j].urls) = 2
    /\ progress[j].progress_percent = 100
    /\ \E i \in DOMAIN progress[j].url_timings :
         progress[j].url_timings[i].error = "X"
    /\ \E i \in DOMAIN progress[j].url_timings :
         progress[j].url_timings[i].error = ""

\* C2 as stated: in every state of every progress record,
\* progress_percent = 100 exactly when done is true.
HundredIffDone ==
  \A j \in DOMAIN progress :
    (progress[j].progress_percent = 100) <=> progress[j].done

\* C2 amended: in every state of the record of a job, and in every snapshot
\* of it, done implies progress_percent = 100; progress_percent = 100
\* implies that the worker has left its loop (every URL finished), and when
\* done is still false the write of done is the worker's next step.
DoneImpliesHundred ==
  /\ \A j \in DOMAIN progress :
       /\ progress[j].done => progress[j].progress_percent = 100
       /\ progress[j].progress_percent = 100 => worker[j].pc \in AfterLoop
       /\ (progress[j].progress_percent = 100 /\ ~progress[j].done)
            => worker[j].pc = "done"
  /\ \A t \in Threads :
       (thread[t].pc \in PercentRead \/ HasSnapshot(t))
         => (thread[t].snap.done => thread[t].snap.progress_percent = 100)

\* a complete snapshot of a two-URL job that reports done
DoneSnapshotWitness ==
  \E t \in Threads :
    /\ HasSnapshot(t)
    /\ thread[t].snap.done
    /\ thread[t].snap.progress_percent = 100
    /\ thread[t].snap.total_urls = 2

\* C3 as stated: every complete snapshot that reports done reports
\* total_urls = completed_urls.
DoneSnapshotCountsAgree ==
  \A t \in Threads :
    (HasSnapshot(t) /\ thread[t].snap.done)
      => thread[t].snap.total_urls = thread[t].snap.completed_urls

(***************************************************************************)
(* Properties of the worker loop.                                          *)
(***************************************************************************)
\* the URLs of the timing records of job j, in order: one record is
\* appended per iteration of the loop, whatever the call did
AttemptedUrls(j) ==
  [i \in DOMAIN progress[j].url_timings |-> progress[j].url_timings[i].url]

\* positions of an iteration after its timing record is appended
AfterTiming == {"clear_url", "clear_started_at", "percent"}

\* iterations of the loop of job j whose timing record must exist
IterationsRecorded(j) ==
  IF worker[j].pc \in AfterTiming \cup AfterLoop /\ worker[j].urls # <<>>
  THEN worker[j].idx ELSE worker[j].idx - 1

\* C4: under fair scheduling of the workers every started job reaches
\* done = true; at every moment the URLs attempted so far are the first
\* URLs of the list, each once and in order, and once done they are the
\* whole list.
EveryJobFinishes ==
  /\ \A j \in JobIds : (j \in Started) ~> (j \in Started /\ progress[j].done)
  /\ [](\A j \in Started :
          /\ Len(progress[j].url_timings) = IterationsRecorded(j)
          /\ AttemptedUrls(j) =
               SubSeq(worker[j].urls, 1, Len(progress[j].url_timings))
          /\ progress[j].done => AttemptedUrls(j) = worker[j].urls)

\* a finished job of two URLs whose first call raised and whose second
\* call reported an error
FinishedAfterFailuresWitness ==
  \E j \in Started :
    /\ progress[j].done
    /\ Len(progress[j].url_timings) = 2
    /\ progress[j].url_timings[1].error = "X"
    /\ progress[j].url_timings[2].error = "E"

\* entries of the errors list of job j for url
ErrorsFor(j, url) ==
  {k \in DOMAIN progress[j].errors : progress[j].errors[k][1] = url}

\* the call of the current iteration of job j raised and the except clause
\* has run
RaisedThisIteration(j) ==
  /\ worker[j].pc \in {"timing"} \cup AfterTiming
  /\ worker[j].res.error = "X"

\* C5: after the call for a URL raised, errors holds exactly one pair for
\* that URL, (url, message), and results holds no record for it; the
\* timing record appended next is for that URL with that message;
\* current_url is None before the percent is written; and the step that
\* writes the percent moves the worker to the next URL of the list (or out
\* of the loop after the last one).
ExceptionIsRecordedAndSkipped ==
  [][\A j \in DOMAIN worker :
       /\ RaisedThisIteration(j) =>
            /\ Cardinality(ErrorsFor(j, WorkerUrl(j))) = 1
            /\ \A k \in ErrorsFor(j, WorkerUrl(j)) :
                 progress[j].errors[k] = <<WorkerUrl(j), "X">>
            /\ \A k \in DOMAIN progress[j].results :
                 progress[j].results[k].fund_url # WorkerUrl(j)
       /\ (RaisedThisIteration(j) /\ worker[j].pc \in AfterTiming) =>
            /\ progress[j].url_timings[Len(progress[j].url_timings)].url
                 = WorkerUrl(j)
            /\ progress[j].url_timings[Len(progress[j].url_timings)].error
                 = "X"
       /\ (RaisedThisIteration(j) /\ worker[j].pc = "percent") =>
            progress[j].current_url = NoUrl
       /\ (worker[j].pc = "except" /\ worker'[j] # worker[j]) =>
            /\ progress'[j].errors =
                 Append(progress[j].errors, <<WorkerUrl(j), "X">>)
            /\ worker'[j].pc = "timing"
       /\ (RaisedThisIteration(j) /\ worker'[j] # worker[j]) =>
            /\ progress'[j].errors = progress[j].errors
            /\ worker[j].pc = "timing" => worker'[j].pc = "clear_url"
            /\ worker[j].pc = "clear_url" => worker'[j].pc = "clear_started_at"
            /\ worker[j].pc = "clear_started_at" => worker'[j].pc = "percent"
            /\ worker[j].pc = "percent" =>
                 IF worker[j].idx < Len(worker[j].urls)
                 THEN /\ worker'[j].pc = "current_url"
                      /\ worker'[j].idx = worker[j].idx + 1
                 ELSE worker'[j].pc = "done"
    ]_vars

\* the worker starts the second URL after the call for the first raised
NextUrlAfterExceptionWitness ==
  \E j \in DOMAIN worker :
    /\ worker[j].pc = "current_started_at"
    /\ worker[j].idx = 2
    /\ progress[j].current_url = worker[j].urls[2]
    /\ progress[j].errors = << <<worker[j].urls[1], "X">> >>
    /\ Len(progress[j].url_timings) = 1
    /\ progress[j].results = <<>>

(***************************************************************************)
(* Properties of the readers.                                              *)
(***************************************************************************)
\* positions of a handler inside JobStore.get
InGet == {"get_lookup", "get_unlock"}

\* positions of a handler inside Job.snapshot
InSnapshot ==
  {"snap_if_url", "snap_if_started", "snap_elapsed", "snap_total",
   "snap_done", "snap_percent", "snap_current_url", "snap_finished_at",
   "snap_completed"}

\* this step is a step of JobStore.get or Job.snapshot run by handler t
ReaderStep(t) ==
  /\ thread'[t] # thread[t]
  /\ \/ thread[t].pc \in InGet \cup InSnapshot
     \/ thread[t].pc = "idle" /\ thread'[t].pc = "get_lookup"

\* C6: every step of JobStore.get and Job.snapshot leaves every progress
\* record, the job store, the workers and the sheet unchanged; a progress
\* record changes only in a step of the worker of its own job, and no
\* record ever disappears.
ReadersChangeNothing ==
  [][/\ \A t \in Threads :
          ReaderStep(t) =>
            /\ progress' = progress
            /\ jobs' = jobs
            /\ worker' = worker
            /\ sheet' = sheet
            /\ returned' = returned
     /\ \A j \in DOMAIN progress :
          /\ j \in DOMAIN progress'
          /\ progress'[j] # progress[j] =>
               /\ worker'[j].pc # worker[j].pc
               /\ thread' = thread
               /\ jobs' = jobs
               /\ \A i \in DOMAIN progress \ {j} : progress'[i] = progress[i]
    ]_vars

\* a complete snapshot taken while the worker was processing a URL
SnapshotDuringUrlWitness ==
  \E t \in Threads :
    /\ HasSnapshot(t)
    /\ thread[t].snap.current_url # NoUrl
    /\ thread[t].snap.current_elapsed_seconds = "since_current_start"
    /\ WorkerAt(thread[t].job_id, "call")

\* C7 as stated: every call of Job.snapshot returns a snapshot: no handler
\* leaves it with an error, and the current-elapsed computation of line 23
\* only reads a current_started_at that is set.
SnapshotNeverFails ==
  \A t \in Threads :
    /\ ~(thread[t].route = "job_status" /\ thread[t].code = "500")
    /\ ThreadAt(t, "snap_elapsed") => Prog(t).current_started_at # None

(***************************************************************************)
(* Properties of the job store and of the two routes.                      *)
(***************************************************************************)
\* positions of a handler inside JobStore.create with its job_id drawn
InCreate == {"create_lock", "create_insert", "create_unlock"}

\* handlers whose call of JobStore.create has drawn its job_id
Creating == {t \in Threads : thread[t].pc \in InCreate}

\* handlers whose call of JobStore.create has returned its job
Created == {t \in Threads : ThreadAt(t, "respond") /\ thread[t].code = "202"}

\* C8: no step removes or changes a stored job; a get that has looked up,
\* still under the lock, an id that is in the store has found the job of
\* that id, so every get after a create returned finds its job; every id
\* create has returned is in the store under its own id; calls of create
\* in flight or returned have pairwise distinct ids, not stored before the
\* insert.
StoreKeepsEveryJob ==
  [][/\ \A j \in DOMAIN jobs : j \in DOMAIN jobs' /\ jobs'[j] = jobs[j]
     /\ \A t \in Threads :
          (ThreadAt(t, "get_unlock") /\ thread[t].job_id \in DOMAIN jobs)
            => thread[t].found
     /\ \A t \in Threads :
          (thread[t].pc \in InSnapshot \/ ThreadAt(t, "get_unlock"))
            => (thread[t].found => thread[t].job_id \in DOMAIN jobs)
     /\ \A j \in returned \cup {thread[t].job_id : t \in Created} :
          j \in DOMAIN jobs /\ jobs[j].id = j
     /\ \A t \in Creating \cup Created, u \in Creating \cup Created :
          t # u => thread[t].job_id # thread[u].job_id
     /\ \A t \in Creating \cup Created : thread[t].job_id \notin returned
     /\ \A t \in Threads :
          thread[t].pc \in {"create_lock", "create_insert"}
            => thread[t].job_id \notin DOMAIN jobs
    ]_vars

\* one handler has found a returned job and still holds the lock while
\* another waits for the lock to insert a second job
ConcurrentGetAndCreateWitness ==
  \E t \in Threads, u \in Threads :
    /\ ThreadAt(t, "get_unlock")
    /\ thread[t].found
    /\ thread[t].job_id \in returned
    /\ ThreadAt(u, "create_lock")

\* C9: a status query for an id that no 202 response carried finds no job
\* and ends as a 404 response without a snapshot: it never enters
\* Job.snapshot, and none of its steps changes the job store, a progress
\* record, a worker, the sheet or the set of returned ids.
UnknownIdIsNotFound ==
  [][\A t \in Threads :
       /\ (thread[t].pc \in InGet \cup InSnapshot
             /\ thread[t].job_id \notin returned) =>
            /\ thread[t].pc \in InGet
            /\ ~thread[t].found
            /\ thread[t].snap = NoSnapshot
            /\ thread'[t] # thread[t] =>
                 /\ UNCHANGED <<jobs, progress, worker, sheet, returned>>
                 /\ thread'[t].pc \in InGet \cup {"respond"}
                 /\ thread'[t].pc = "respond" =>
                      thread'[t].code = "404" /\ lock' = "free"
       /\ (ThreadAt(t, "respond") /\ thread[t].code = "404") =>
            /\ thread[t].snap = NoSnapshot
            /\ thread[t].job_id \notin returned
            /\ thread'[t] # thread[t] =>
                 UNCHANGED <<jobs, progress, worker, sheet, returned, lock>>
       /\ (/\ ThreadAt(t, "respond")
           /\ thread[t].route = "job_status"
           /\ thread[t].code \in {"200", "500"}) =>
            thread[t].job_id \in returned
    ]_vars

\* a 404 response for an unknown id while the store holds a job
NotFoundWitness ==
  \E t \in Threads :
    /\ ThreadAt(t, "respond")
    /\ thread[t].code = "404"
    /\ thread[t].job_id \notin DOMAIN jobs
    /\ DOMAIN jobs # {}

\* the raw URL is neither new nor allowed to be scraped again, given the
\* processed set the gate read
NotProcessable(raw, processed, rescrape) ==
  /\ normalize_url(raw) \in processed
  /\ normalize_url(raw) \notin {normalize_url(u) : u \in rescrape}

\* every raw URL of the request of handler t is not processable
NothingToProcess(t) ==
  \A i \in DOMAIN RawUrlsOf(thread[t].payload) :
    NotProcessable(RawUrlsOf(thread[t].payload)[i], thread[t].processed,
                   Range(thread[t].payload.rescrape_urls))

\* a response that rejects a batch: the 400 of lines 100-112, or the 500
\* of a request that failed before them
Rejection(r) == r.route = "scrape_batch" /\ r.code \in {"400", "500"}

\* C10: every stored job and every started worker has at least one URL; a
\* handler in JobStore.create carries a non-empty to_scrape list and a
\* request with a processable URL; a 400 response belongs to a request
\* whose URL list is empty or holds only URLs already processed (and their
\* duplicates); and the steps of a rejected request change neither the job
\* store nor the progress records nor the workers.
JobOnlyForProcessableBatch ==
  [][/\ \A j \in DOMAIN jobs : Len(jobs[j].urls) >= 1
     /\ \A j \in DOMAIN worker : Len(worker[j].urls) >= 1
     /\ \A t \in Threads :
          /\ thread[t].pc \in {"create"} \cup InCreate =>
               /\ thread[t].to_scrape # <<>>
               /\ ~NothingToProcess(t)
          /\ (ThreadAt(t, "respond") /\ thread[t].code = "400") =>
               NothingToProcess(t)
          /\ (thread'[t] # thread[t] /\ Rejection(thread'[t])) =>
               /\ ThreadAt(t, "idle")
               /\ UNCHANGED <<jobs, progress, worker, lock, returned>>
          /\ (thread'[t] # thread[t] /\ Rejection(thread[t])) =>
               /\ thread'[t] = IdleThread
               /\ UNCHANGED <<jobs, progress, worker, lock, returned>>
    ]_vars

\* a 400 response for a batch of two URLs that are both the URL of a job
\* already scraped and stored
RejectedProcessedBatchWitness ==
  \E t \in Threads :
    /\ ThreadAt(t, "respond")
    /\ thread[t].code = "400"
    /\ Len(thread[t].payload.fund_urls) = 2
    /\ thread[t].processed # {}
    /\ DOMAIN jobs # {}


(***************************************************************************)
(* The dedup gate, SpecGate.                                               *)
(***************************************************************************)
GateReturned == call.fn = "prepare_urls_for_scrape" /\ call.pc = "returned"

\* the key of the i-th raw URL, and whether it is the first with that key
GateKey(i) == normalize_url(call.raw_urls[i])
FirstOccurrence(i) == \A m \in 1..(i - 1) : GateKey(m) # GateKey(i)
AllowKeys == {normalize_url(u) : u \in call.allow_rescrape}
SkippedKey(i) == GateKey(i) \in ProcessedAt(call) /\ GateKey(i) \notin AllowKeys

\* list holds Val(i) for the positions i of the input with Sel(i), in order
Selected(list, Sel(_), Val(_)) ==
  /\ Len(list) = Cardinality({m \in DOMAIN call.raw_urls : Sel(m)})
  /\ \A i \in DOMAIN call.raw_urls :
       Sel(i) => list[Cardinality({m \in 1..i : Sel(m)})] = Val(i)

\* C11: the keys of to_process, of already_processed and of
\* duplicates_in_payload together are exactly the distinct keys of the input
GatePartitionCovers ==
  GateReturned =>
    Range(call.out.to_scrape)
      \cup {normalize_url(u) : u \in Range(call.out.already_processed)}
      \cup {normalize_url(u) : u \in Range(call.out.duplicates_in_payload)}
    = {GateKey(i) : i \in DOMAIN call.raw_urls}

GateThreeListsWitness ==
  /\ GateReturned
  /\ call.out.to_scrape # <<>>
  /\ call.out.already_processed # <<>>
  /\ call.out.duplicates_in_payload # <<>>

\* C12: every later occurrence of a key is in duplicates_in_payload and in no
\* other list, to_process has no key twice and keeps first-occurrence order,
\* and [A, A, B] with A processed gives [B], [A] and [A]
GateLaterOccurrencesAreDuplicates ==
  GateReturned =>
    /\ Selected(call.out.duplicates_in_payload,
                LAMBDA i : ~FirstOccurrence(i), LAMBDA i : call.raw_urls[i])
    /\ Len(call.out.to_scrape) + Len(call.out.already_processed)
         = Cardinality({i \in DOMAIN call.raw_urls : FirstOccurrence(i)})
    /\ \A k, l \in DOMAIN call.out.to_scrape :
         k < l =>
           /\ call.out.to_scrape[k] # call.out.to_scrape[l]
           /\ \E i, j \in DOMAIN call.raw_urls :
                /\ i < j
                /\ FirstOccurrence(i) /\ GateKey(i) = call.out.to_scrape[k]
                /\ FirstOccurrence(j) /\ GateKey(j) = call.out.to_scrape[l]
    /\ ( /\ call.raw_urls = <<UrlA, UrlA, UrlB>>
         /\ ProcessedAt(call) = {UrlA}
         /\ call.allow_rescrape = {} )
       => /\ call.out.to_scrape = <<normalize_url(UrlB)>>
          /\ call.out.duplicates_in_payload = <<UrlA>>
          /\ call.out.already_processed = <<UrlA>>

GateRepeatedProcessedWitness ==
  /\ GateReturned
  /\ call.raw_urls = <<UrlA, UrlA, UrlB>>
  /\ ProcessedAt(call) = {UrlA}
  /\ call.allow_rescrape = {}
  /\ call.out.to_scrape = <<normalize_url(UrlB)>>
  /\ call.out.duplicates_in_payload = <<UrlA>>

\* C13: a first occurrence goes to already_processed exactly when its key is
\* processed and is not the key of an allow-rescrape URL, else to to_process
GateFirstOccurrenceRoute ==
  GateReturned =>
    /\ Selected(call.out.already_processed,
                LAMBDA i : FirstOccurrence(i) /\ SkippedKey(i),
                LAMBDA i : call.raw_urls[i])
    /\ Selected(call.out.to_scrape,
                LAMBDA i : FirstOccurrence(i) /\ ~SkippedKey(i),
                LAMBDA i : GateKey(i))

GateRescrapeWitness ==
  /\ GateReturned
  /\ \E i, j \in DOMAIN call.raw_urls :
       /\ GateKey(i) \in ProcessedAt(call) /\ GateKey(i) \in AllowKeys
       /\ GateKey(i) \in Range(call.out.to_scrape)
       /\ GateKey(j) \in ProcessedAt(call) /\ GateKey(j) \notin AllowKeys
       /\ call.raw_urls[j] \in Range(call.out.already_processed)

\* C14: the gate compares by the strict key canon_funder_url: of two URLs
\* of the batch with the same strict key the later one is reported as a
\* duplicate, and a first occurrence whose strict key has a row in the store
\* is reported as already processed
StrictKey(i) == canon_funder_url(call.raw_urls[i])
StrictProcessed == {canon_funder_url(call.rows[r]) : r \in DOMAIN call.rows}

GateComparesByStrictKey ==
  (GateReturned /\ call.loaded /\ call.allow_rescrape = {}) =>
    /\ canon_funder_url(RegisterX) # canon_funder_url(RegisterY)
    /\ \A i, j \in DOMAIN call.raw_urls :
         (i < j /\ StrictKey(i) = StrictKey(j))
           => call.raw_urls[j] \in Range(call.out.duplicates_in_payload)
    /\ \A i \in DOMAIN call.raw_urls :
         ((\A m \in 1..(i - 1) : StrictKey(m) # StrictKey(i))
            /\ StrictKey(i) \in StrictProcessed)
           => call.raw_urls[i] \in Range(call.out.already_processed)

(***************************************************************************)
(* The canonicalizers, SpecCanon.                                          *)
(***************************************************************************)
\* C16: canon_funder_url applied to its own result returns that result
CanonIsIdempotent ==
  (call.fn = "canon_funder_url" /\ call.pc = "twice")
    => call.twice = call.once

\* C17: normalize_url applied to its own result returns that result
NormalizeIsIdempotent ==
  (call.fn = "normalize_url" /\ call.pc = "twice")
    => call.twice = call.once

Crawling == crawl.pc # "none"

\* C18: the pages-visited counter is at most max_pages, equals the size of
\* the visited set and never decreases, and every fetch was made with the
\* counter below the budget
CrawlCounterWithinBudget ==
  /\ [](Crawling =>
          /\ crawl.pages_visited <= crawl.max_pages
          /\ crawl.pages_visited = Cardinality(crawl.visited)
          /\ \A k \in DOMAIN crawl.fetched :
               crawl.fetched[k].counter < crawl.max_pages)
  /\ [][Crawling => crawl'.pages_visited >= crawl.pages_visited]_vars

\* the budget is spent while a page that would otherwise be visited waits
BudgetSpentWitness ==
  /\ CrawlAt("loop")
  /\ crawl.pages_visited = crawl.max_pages
  /\ Len(crawl.fetched) >= 2
  /\ crawl.queue # <<>>
  /\ Head(crawl.queue)[1] \notin crawl.visited
  /\ Head(crawl.queue)[2] <= crawl.discovery_depth

\* C19: every page visited and fetched was dequeued at a depth of at most
\* discovery_depth, and every queued item has depth at most
\* discovery_depth + 1
CrawlDepthWithinLimit ==
  Crawling =>
    /\ \A k \in DOMAIN crawl.fetched :
         crawl.fetched[k].depth <= crawl.discovery_depth
    /\ \A k \in DOMAIN crawl.queue :
         crawl.queue[k][2] <= crawl.discovery_depth + 1

\* a page fetched at the deepest level, whose links are recorded as
\* candidates and not queued
DeepestPageWitness ==
  /\ Crawling
  /\ crawl.discovery_depth >= 1
  /\ \E k \in DOMAIN crawl.fetched :
       crawl.fetched[k].depth = crawl.discovery_depth
  /\ \E u \in crawl.candidates :
       u \notin crawl.visited /\ \A k \in DOMAIN crawl.queue : crawl.queue[k][1] # u

\* C20: no key is visited and fetched twice in one crawl
NoKeyFetchedTwice ==
  Crawling =>
    \A k, l \in DOMAIN crawl.fetched :
      k # l => crawl.fetched[k].url # crawl.fetched[l].url

\* a key queued twice before its first visit: visited once, the second
\* copy still in the queue
QueuedAgainWitness ==
  /\ Crawling
  /\ crawl.pages_visited < crawl.max_pages
  /\ \E k \in DOMAIN crawl.queue :
       /\ crawl.queue[k][1] \in crawl.visited
       /\ crawl.queue[k][2] <= crawl.discovery_depth
       /\ \E l \in DOMAIN crawl.fetched :
            /\ crawl.fetched[l].url = crawl.queue[k][1]
            /\ crawl.fetched[l].depth = crawl.queue[k][2]

(***************************************************************************)
(* fetch_page, SpecFetch.                                                  *)
(***************************************************************************)
\* C27: fetch_page issues at most `retries` requests, returns the text of
\* the first success, returns None after the last failed attempt, and never
\* raises
FetchPageIsBoundedAndNonFatal ==
  call.fn = "fetch_page" =>
    /\ Len(call.responses) <= call.retries
    /\ call.pc # "raised"
    /\ \A k \in 1..(Len(call.responses) - 1) :
         call.responses[k].status_code # "200"
    /\ call.pc = "returned" =>
         IF \E k \in DOMAIN call.responses : call.responses[k].status_code = "200"
         THEN call.result = call.responses[Len(call.responses)].text
         ELSE call.result = None /\ Len(call.responses) = call.retries

\* C21: the discovery crawl terminates: eventually the queue is empty and
\* the candidate map is returned
CrawlEventuallyReturns ==
  <>(crawl.pc = "returned" /\ crawl.queue = <<>>)

\* whole-token prefix: key lies under root, with the same identifier
UnderRoot(key, root) ==
  Len(root) <= Len(key) /\ SubSeq(key, 1, Len(root)) = root

\* the keys of the links in the queue (the seed is queued at depth 0)
QueuedLinks == {crawl.queue[k][1] : k \in {i \in DOMAIN crawl.queue : crawl.queue[i][2] >= 1}}

\* C22: for a seed of the register, every key in the candidate map and
\* every queued link lies under scope_root(seed)
CandidatesWithinScope ==
  (Crawling /\ IsCharityCommission(crawl.base_domain)) =>
    \A u \in crawl.candidates \cup QueuedLinks : UnderRoot(u, crawl.seed_base)

\* C23: every visited page and every candidate has the seed's base domain
\* as its domain, up to a www. prefix
CrawlStaysOnDomain ==
  Crawling =>
    \A u \in crawl.visited \cup crawl.candidates :
      DropWww(urlparse(u).netloc) = crawl.base_domain

\* C28: a step that visits a page whose fetch fails counts the page, leaves
\* the candidate map alone, only removes the page from the queue, and the
\* traversal goes on
FailedFetchIsNonFatal ==
  [][(/\ Crawling
      /\ Len(crawl'.fetched) = Len(crawl.fetched) + 1
      /\ crawl'.fetched[Len(crawl'.fetched)].html # "page")
     => /\ crawl'.pages_visited = crawl.pages_visited + 1
        /\ crawl'.candidates = crawl.candidates
        /\ crawl'.queue = Tail(crawl.queue)
        /\ crawl'.pc = "loop"]_vars

\* C29: the politeness delay is taken between any two consecutive fetches
\* of discover_links
PauseBetweenFetches ==
  Crawling =>
    \A k \in DOMAIN crawl.fetched : k >= 2 => crawl.fetched[k].paused

(***************************************************************************)
(* Properties of prioritized_crawl.                                        *)
(***************************************************************************)
\* the candidates of a call, the seed among them
RankCandidates == Range(call.discovered) \cup {normalize_url(call.seed_url)}

\* C24: the Prioritized Fetcher attempts at most max_pages URLs: the list of
\* URLs attempted has length min(number of candidates including the seed,
\* max_pages), no more URLs than that are fetched, and the returned count of
\* pages fetched is the number attempted less the number of attempted URLs
\* whose fetch failed.
FetcherAttemptsAtMostMaxPages ==
  ~RankAt("discovered") =>
    /\ Len(call.top_links) = MinOf(Cardinality(RankCandidates), MAX_PAGES)
    /\ call.i <= MAX_PAGES
    /\ RankAt("returned") =>
         /\ call.result.top_links = call.top_links
         /\ call.result.fetched = Len(call.top_links) - call.failed
         /\ call.result.fetched <= Len(call.result.top_links)

\* a call with more candidates than MAX_PAGES has returned after two of its
\* fetches failed
CutAndFailedWitness ==
  /\ RankAt("returned")
  /\ Cardinality(RankCandidates) > MAX_PAGES
  /\ call.failed >= 2
  /\ call.result.fetched = MAX_PAGES - call.failed

\* the position of a url in top_links, 0 when it was not selected
Selection(url) ==
  IF url \in Range(call.top_links)
  THEN CHOOSE i \in DOMAIN call.top_links : call.top_links[i] = url
  ELSE 0

\* candidate a (a position of the candidate map) is ranked before candidate
\* b: a higher score, or the same score and an earlier insertion
RankedBefore(a, b) ==
  LET sa == score_candidate(call.candidates[a][1], call.candidates[a][2])
      sb == score_candidate(call.candidates[b][1], call.candidates[b][2])
  IN sa > sb \/ (sa = sb /\ a < b)

\* C25: candidates are selected by score descending, and of two candidates
\* with equal score the one inserted first into the candidate map is selected
\* first: whenever b is among the top max_pages, every a ranked before b is
\* among them too, at an earlier position.
TiesKeepDiscoveryOrder ==
  ~RankAt("discovered") =>
    \A a, b \in DOMAIN call.candidates :
      (RankedBefore(a, b) /\ Selection(call.candidates[b][1]) > 0) =>
        /\ Selection(call.candidates[a][1]) > 0
        /\ Selection(call.candidates[a][1]) < Selection(call.candidates[b][1])

(***************************************************************************)
(* Properties of the order of the work of one job.                         *)
(***************************************************************************)
\* positions of the worker between the start of the pipeline for a url
\* (current_url set) and the append of its timing record
InFlight == {"current_started_at", "call", "results", "errors", "except",
             "timing"}

\* the urls whose iteration has appended its timing record
Timed(j) == [k \in DOMAIN progress[j].url_timings |->
               progress[j].url_timings[k].url]

RECURSIVE IsSubsequence(_, _)
\* r can be had from s by leaving elements out
IsSubsequence(r, s) ==
  IF r = <<>> THEN TRUE
  ELSE IF s = <<>> THEN FALSE
  ELSE IF Head(r) = Head(s) THEN IsSubsequence(Tail(r), Tail(s))
  ELSE IsSubsequence(r, Tail(s))

\* the urls of the results, in the order of the list
ResultUrls(j) == [k \in DOMAIN progress[j].results |->
                    progress[j].results[k].fund_url]

\* the outcome of url k of job j is on record: a result or an error
OutcomeRecorded(j, k) ==
  \/ \E r \in Range(progress[j].results) : r.fund_url = worker[j].urls[k]
  \/ \E e \in Range(progress[j].errors) : e[1] = worker[j].urls[k]

\* C26: the work of a job is sequential and in order. Every job has its one
\* worker, which walks the to-process list of the job; when the worker is
\* about to start url idx, the outcomes and timings of the urls before it
\* are on record and current_url is cleared; while a url is in flight it is
\* the url at idx and no other; the timing records are the beginning of the
\* to-process list, and the results follow its order.
WorkIsSequentialInOrder ==
  /\ DOMAIN worker = DOMAIN progress
  /\ \A id \in DOMAIN jobs :
       id \in DOMAIN worker /\ worker[id].urls = jobs[id].urls
  /\ \A j \in DOMAIN worker :
       LET w == worker[j]
           p == progress[j]
           n == Len(p.url_timings)
       IN /\ n <= Len(w.urls)
          /\ Timed(j) = SubSeq(w.urls, 1, n)
          /\ \A k \in 1..n : OutcomeRecorded(j, k)
          /\ IsSubsequence(ResultUrls(j), w.urls)
          /\ w.pc = "current_url" =>
               n = w.idx - 1 /\ p.current_url = NoUrl
               /\ p.current_started_at = None
          /\ w.pc \in InFlight => n = w.idx - 1 /\ p.current_url = w.urls[w.idx]
          /\ p.current_url # NoUrl =>
               p.current_url = w.urls[w.idx] /\ n \in {w.idx - 1, w.idx}
          /\ w.pc \in AfterLoop => n = Len(w.urls) /\ p.current_url = NoUrl

\* the worker of a job of two urls is about to start the second url
SecondUrlStartsWitness ==
  \E j \in DOMAIN worker :
    /\ Len(worker[j].urls) = 2
    /\ worker[j].urls[1] # worker[j].urls[2]
    /\ WorkerAt(j, "current_url") /\ worker[j].idx = 2
    /\ Len(progress[j].url_timings) = 1

(***************************************************************************)
(* Properties of the completion of a job.                                  *)
(***************************************************************************)
\* C30: in every state of a job, and in every snapshot, done
\* implies that finished_at is set and current_url is cleared, and the total
\* elapsed time of a snapshot that reports done is measured up to
\* finished_at, not up to the time of the snapshot.
DoneImpliesFinishedAt ==
  /\ \A j \in DOMAIN progress :
       progress[j].done =>
         progress[j].finished_at # None /\ progress[j].current_url = NoUrl
  /\ \A t \in Threads :
       (HasSnapshot(t) /\ thread[t].snap.done) =>
         /\ thread[t].snap.finished_at # None
         /\ thread[t].snap.current_url = NoUrl
         /\ thread[t].snap.total_elapsed_seconds = "until_finished"

====
